---- MODULE Spec2Model ----
(***************************************************************************)
(* smart_wallet: the income / expense store, its aggregates and the        *)
(* request handlers of wallet/views.py and wallet/forms.py.                *)
(*                                                                         *)
(* Amounts are decimals [w, m]: w whole currency units and m thousandths   *)
(* (0..999), value w + m/1000 (floor representation, so -0.005 is          *)
(* [w |-> -1, m |-> 995]).  Dates are integers yyyymmdd, whose order is    *)
(* the calendar order.  Texts are sequences of one-character strings.      *)
(***************************************************************************)
EXTENDS Integers, Sequences, FiniteSets, TLC

VARIABLES
    categories,    \* Category table: id -> name
    categorySeq,   \* last id handed out for Category
    incomes,       \* Income table: id -> record
    incomeSeq,     \* last id handed out for Income (ids are never reused)
    expenses,      \* Expense table: id -> record
    expenseSeq,    \* last id handed out for Expense
    today,         \* date.today()
    now,           \* timezone.now(), a logical clock
    response,      \* the answer to the last request
    inflight       \* per worker: the PUT it has read the row for and not saved

vars == <<categories, categorySeq, incomes, incomeSeq, expenses, expenseSeq,
          today, now, response, inflight>>

store == <<categories, incomes, expenses>>

----------------------------------------------------------------------------
(* Bounds of the model. *)

\* ids handed out per table
MaxId == 2
\* successful writes (each write reads a later clock value)
MaxClock == 3
\* workers that serve requests side by side
MaxWorkers == 1

----------------------------------------------------------------------------
(* Decimal arithmetic. *)

Dec(w, m) == [w |-> w, m |-> m]

\* Decimal('0.00')
ZERO == Dec(0, 0)

\* Python's None, as returned by Sum() over an empty table
None == [w |-> 0, m |-> -1]

DecLE(a, b) == a.w < b.w \/ (a.w = b.w /\ a.m <= b.m)

DecLT(a, b) == a.w < b.w \/ (a.w = b.w /\ a.m < b.m)

DecAdd(a, b) == Dec(a.w + b.w + ((a.m + b.m) \div 1000), (a.m + b.m) % 1000)

DecSub(a, b) == Dec(a.w - b.w + ((a.m - b.m) \div 1000), (a.m - b.m) % 1000)

\* Decimal('99999999.99')
MAX_AMOUNT == Dec(99999999, 990)

\* number of fractional digits of a decimal written without trailing zeros
FractionDigits(a) ==
    IF a.m = 0 THEN 0
    ELSE IF a.m % 100 = 0 THEN 1
    ELSE IF a.m % 10 = 0 THEN 2
    ELSE 3

\* quantize(Decimal('0.01')) under ROUND_HALF_EVEN, for a >= 0
Quantize(a) ==
    LET cents == a.m \div 10
        rest  == a.m % 10
        up    == rest > 5 \/ (rest = 5 /\ cents % 2 = 1)
        c     == IF up THEN cents + 1 ELSE cents
    IN  Dec(a.w + (c \div 100), (c % 100) * 10)

----------------------------------------------------------------------------
(* Text. *)

RECURSIVE lstrip(_)
lstrip(s) == IF s # <<>> /\ Head(s) = " " THEN lstrip(Tail(s)) ELSE s

RECURSIVE rstrip(_)
rstrip(s) ==
    IF s # <<>> /\ s[Len(s)] = " " THEN rstrip(SubSeq(s, 1, Len(s) - 1)) ELSE s

\* str.strip()
strip(s) == rstrip(lstrip(s))

----------------------------------------------------------------------------
(* Dates. *)

Year(d) == d \div 10000

Month(d) == (d \div 100) % 100

Day(d) == d % 100

IsLeap(y) == (y % 4 = 0 /\ y % 100 # 0) \/ y % 400 = 0

DaysInMonth(y, mth) ==
    IF mth = 2 THEN (IF IsLeap(y) THEN 29 ELSE 28)
    ELSE IF mth \in {4, 6, 9, 11} THEN 30
    ELSE 31

\* does the text name a calendar date (strptime '%Y-%m-%d' succeeds)
IsDate(d) ==
    /\ Year(d) >= 1
    /\ Month(d) \in 1..12
    /\ Day(d) >= 1
    /\ Day(d) <= DaysInMonth(Year(d), Month(d))

\* d.replace(year=y): a date, or a ValueError when that day does not exist
ReplaceYear(d, y) ==
    LET r == (y * 10000) + (d % 10000)
    IN  IF IsDate(r) THEN [ok |-> TRUE, date |-> r]
        ELSE [ok |-> FALSE, date |-> 0]

----------------------------------------------------------------------------
(* The store: Category, Income and Expense tables. *)

\* Income.amount / Expense.amount column: a decimal of at most 10 digits, 2 of
\* them fractional.  Writing a value rounds it to 2 places; a value that then
\* needs more than 10 digits is refused (decimal.InvalidOperation).
AmountColumn(value) ==
    LET q == Quantize(value)
    IN  IF q.w > 99999999 THEN [ok |-> FALSE, amount |-> ZERO]
        ELSE [ok |-> TRUE, amount |-> q]

\* a lookup that finds a row for every id
CategoryExists_unchecked(pk) == TRUE

\* Category.objects.get(pk=...) finds a row
CategoryExists(pk) == pk \in DOMAIN categories

\* the Category rows with a given name
CategoryByName(name) == {c \in DOMAIN categories : categories[c] = name}

\* Income.objects.create(category, source, amount, date, note), amount storable
InsertIncome(category, source, amount, date, note) ==
    /\ incomeSeq < MaxId
    /\ now < MaxClock
    /\ incomeSeq' = incomeSeq + 1
    /\ now' = now + 1
    /\ incomes' = incomes @@ (incomeSeq + 1 :>
            [category |-> category, source |-> source, amount |-> amount,
             date |-> date, note |-> note,
             created_at |-> now + 1, updated_at |-> now + 1])

\* Expense.objects.create(title, amount, date), amount storable
InsertExpense(title, amount, date) ==
    /\ expenseSeq < MaxId
    /\ now < MaxClock
    /\ expenseSeq' = expenseSeq + 1
    /\ now' = now + 1
    /\ expenses' = expenses @@ (expenseSeq + 1 :>
            [title |-> title, amount |-> amount, date |-> date,
             created_at |-> now + 1, updated_at |-> now + 1])

\* a save that writes the instance over every row of the table
SaveIncome_everyRow(pk, instance) ==
    /\ now < MaxClock
    /\ now' = now + 1
    /\ incomes' = [i \in DOMAIN incomes |->
            [instance EXCEPT !.created_at = incomes[i].created_at,
                             !.updated_at = now + 1]]

\* a save that writes the date column alone
SaveIncome_dateOnly(pk, instance) ==
    /\ now < MaxClock
    /\ now' = now + 1
    /\ incomes' = [incomes EXCEPT ![pk] =
            [incomes[pk] EXCEPT !.date = instance.date,
                                !.updated_at = now + 1]]

\* income.save() of an instance read as row pk: every column is written,
\* updated_at is refreshed (auto_now), id and created_at stay
SaveIncome(pk, instance) ==
    /\ now < MaxClock
    /\ now' = now + 1
    /\ incomes' = [incomes EXCEPT ![pk] =
            [instance EXCEPT !.created_at = incomes[pk].created_at,
                             !.updated_at = now + 1]]

\* a save that leaves the amount column out of its UPDATE
SaveExpense_withoutAmount(pk, instance) ==
    /\ now < MaxClock
    /\ now' = now + 1
    /\ expenses' = [expenses EXCEPT ![pk] =
            [instance EXCEPT !.amount = expenses[pk].amount,
                             !.created_at = expenses[pk].created_at,
                             !.updated_at = now + 1]]

\* a save that stamps created_at too
SaveExpense_newCreatedAt(pk, instance) ==
    /\ now < MaxClock
    /\ now' = now + 1
    /\ expenses' = [expenses EXCEPT ![pk] =
            [instance EXCEPT !.created_at = now + 1,
                             !.updated_at = now + 1]]

\* expense.save()
SaveExpense(pk, instance) ==
    /\ now < MaxClock
    /\ now' = now + 1
    /\ expenses' = [expenses EXCEPT ![pk] =
            [instance EXCEPT !.created_at = expenses[pk].created_at,
                             !.updated_at = now + 1]]

\* income.delete()
DeleteIncome(pk) ==
    incomes' = [i \in DOMAIN incomes \ {pk} |-> incomes[i]]

\* a delete whose queryset is not narrowed to the row
DeleteExpense_everyRow(pk) ==
    expenses' = [i \in {} |-> 0]

\* expense.delete()
DeleteExpense(pk) ==
    expenses' = [i \in DOMAIN expenses \ {pk} |-> expenses[i]]

----------------------------------------------------------------------------
(* Aggregates. *)

RECURSIVE SumRows(_, _)
SumRows(table, ids) ==
    IF ids = {} THEN ZERO
    ELSE LET i == CHOOSE x \in ids : TRUE
         IN  DecAdd(table[i].amount, SumRows(table, ids \ {i}))

\* Model.objects.aggregate(total=Sum('amount'))['total']: None on no rows
Aggregate(table) ==
    IF DOMAIN table = {} THEN None ELSE SumRows(table, DOMAIN table)

\* the aggregate handed on as it is, None on an empty table
calculate_total_income_unguarded == Aggregate(incomes)

\* DashboardView.calculate_total_income
calculate_total_income ==
    LET total == Aggregate(incomes)
    IN  IF total # None THEN total ELSE ZERO

\* DashboardView.calculate_total_expenses
calculate_total_expenses ==
    LET total == Aggregate(expenses)
    IN  IF total # None THEN total ELSE ZERO

\* the operands of the subtraction exchanged
calculate_balance_swapped(total_income, total_expenses) ==
    DecSub(total_expenses, total_income)

\* DashboardView.calculate_balance
calculate_balance(total_income, total_expenses) ==
    DecSub(total_income, total_expenses)

\* `x or Decimal('0.00')`: None and a zero decimal are both falsy
OrZero(x) == IF x = None \/ x = ZERO THEN ZERO ELSE x

----------------------------------------------------------------------------
(* Requests and responses. *)

\* a JSON amount: a number or a string, holding a decimal numeral or not
Num(w, m) == [kind |-> "number", numeric |-> TRUE, val |-> Dec(w, m)]

Str(w, m) == [kind |-> "string", numeric |-> TRUE, val |-> Dec(w, m)]

NotANumber == [kind |-> "string", numeric |-> FALSE, val |-> ZERO]

\* a request: the view's pk argument (0 when the route has none), whether the
\* body parses as JSON, and the parsed object as a function from its keys
Req(pk, data) == [pk |-> pk, json |-> TRUE, data |-> data]

Malformed(pk) == [pk |-> pk, json |-> FALSE, data |-> [k \in {} |-> 0]]

Has(data, field) == field \in DOMAIN data

\* `not data[field]`: an empty string, the number 0
Falsy(field, v) ==
    IF field \in {"category_id", "date", "id"} THEN v = 0
    ELSE IF field = "amount" THEN v.kind = "number" /\ v.numeric /\ v.val = ZERO
    ELSE v = <<>>

\* `field not in data or not data[field]`
Missing(data, field) == ~Has(data, field) \/ Falsy(field, data[field])

NoStats == [totalIncome |-> None, totalExpenses |-> None, currentBalance |-> None]

\* the function data without the key field
Without(data, field) == [k \in DOMAIN data \ {field} |-> data[k]]

\* an answer without a 'data' object
NoData == [k \in {} |-> 0]

\* the envelope of an answer; type is the 'type' key that only the answers of
\* /api/transactions/ carry in their data; data is the record that the
\* answers of /api/income/ and /api/expense/ describe; message is the text
\* of the answer where it names what was refused
JsonResponse(status, code, type) ==
    [status |-> status, code |-> code, type |-> type, errors |-> {},
     stats |-> NoStats, transactions |-> <<>>, data |-> NoData,
     message |-> "", filters |-> NoData]

NoResponse == JsonResponse("none", 0, "none")

\* the 'message' key of an error answer: every error answer has one; its
\* texts are told apart by the code here, the one of a missing Category
\* aside
ErrorMessage(code) ==
    IF code = 400 THEN "Invalid request data"
    ELSE IF code = 404 THEN "Transaction not found"
    ELSE "Failed to process request"

\* the envelope of an error answer
ErrorResponse(code) ==
    [JsonResponse("error", code, "none") EXCEPT !.message = ErrorMessage(code)]

\* an error answer sent without its status argument, which makes it HTTP 200
Refuse_200(code) ==
    /\ response' = [ErrorResponse(code) EXCEPT !.code = 200]
    /\ UNCHANGED <<categories, categorySeq, incomes, incomeSeq, expenses,
                   expenseSeq, now>>

\* an error response; nothing has been written
Refuse(code) ==
    /\ response' = ErrorResponse(code)
    /\ UNCHANGED <<categories, categorySeq, incomes, incomeSeq, expenses,
                   expenseSeq, now>>

\* an answer that reports the missing Category as a missing resource
RefuseCategory_notFound ==
    /\ response' = [JsonResponse("error", 404, "none") EXCEPT
            !.message = "Invalid category ID"]
    /\ UNCHANGED <<categories, categorySeq, incomes, incomeSeq, expenses,
                   expenseSeq, now>>

\* the 400 answer to a category_id that no Category row has
RefuseCategory ==
    /\ response' = [JsonResponse("error", 400, "none") EXCEPT
            !.message = "Invalid category ID"]
    /\ UNCHANGED <<categories, categorySeq, incomes, incomeSeq, expenses,
                   expenseSeq, now>>

\* the workers that serve requests
Workers == 1..MaxWorkers

\* a worker that holds no request
Idle == [pk |-> 0, data |-> [k \in {} |-> 0], instance |-> [k \in {} |-> 0]]

\* a conversion to a whole number, which drops the cents
float_whole(amount) == Num(amount.w, 0)

\* float(amount) as the JSON number of the answer: a number, not the text
\* that was sent, of the same value, since a double holds the ten significant
\* digits of an amount of the column exactly enough to be written back
float(amount) == Num(amount.w, amount.m)

\* the 'data' object that describes row pk of the Income table
IncomeData(table, names, pk) ==
    [id |-> pk, source |-> table[pk].source,
     category |-> [id |-> table[pk].category,
                   name |-> IF table[pk].category \in DOMAIN names
                            THEN names[table[pk].category] ELSE ""],
     amount |-> float(table[pk].amount), date |-> table[pk].date,
     note |-> table[pk].note,
     created_at |-> table[pk].created_at,
     updated_at |-> table[pk].updated_at]

\* the 'data' object that describes row pk of the Expense table
ExpenseData(table, pk) ==
    [id |-> pk, title |-> table[pk].title,
     amount |-> float(table[pk].amount), date |-> table[pk].date,
     created_at |-> table[pk].created_at,
     updated_at |-> table[pk].updated_at]

----------------------------------------------------------------------------
(* IncomeAPIView: /api/income/ and /api/income/<pk>/ *)

\* IncomeAPIView.get with pk
IncomeAPIView_get(pk) ==
    IF pk \notin DOMAIN incomes THEN Refuse(404)
    ELSE /\ response' = [JsonResponse("success", 200, "none") EXCEPT
                !.data = IncomeData(incomes, categories, pk)]
         /\ UNCHANGED <<categories, categorySeq, incomes, incomeSeq, expenses,
                        expenseSeq, now>>

IncomeAPIView_post(req) ==
    IF ~req.json THEN Refuse(400)
    ELSE LET data == req.data IN
    IF \E f \in {"category_id", "source", "amount", "date"} : Missing(data, f)
        THEN Refuse(400)
    ELSE IF ~CategoryExists(data.category_id) THEN RefuseCategory
    ELSE IF ~IsDate(data.date) THEN Refuse(400)
    ELSE IF ~data.amount.numeric THEN Refuse(500)
    ELSE IF DecLE(data.amount.val, ZERO) THEN Refuse(400)
    ELSE IF ~AmountColumn(data.amount.val).ok THEN Refuse(500)
    ELSE /\ InsertIncome(data.category_id, strip(data.source),
                         AmountColumn(data.amount.val).amount, data.date,
                         IF Has(data, "note") THEN strip(data.note) ELSE <<>>)
         /\ response' = [JsonResponse("success", 201, "none") EXCEPT
                !.data = [Without(IncomeData(incomes', categories, incomeSeq'),
                                  "updated_at")
                          EXCEPT !.amount = float(data.amount.val)]]
         /\ UNCHANGED <<categories, categorySeq, expenses, expenseSeq>>

\* IncomeAPIView.put, the checks of the supplied fields: the status they end in
IncomeAPIView_put_checks(data) ==
    IF Has(data, "category_id") /\ ~CategoryExists(data.category_id) THEN 400
    ELSE IF Has(data, "source") /\ strip(data.source) = <<>> THEN 400
    ELSE IF Has(data, "amount") /\ ~data.amount.numeric THEN 500
    ELSE IF Has(data, "amount") /\ DecLE(data.amount.val, ZERO) THEN 400
    ELSE IF Has(data, "date") /\ ~IsDate(data.date) THEN 400
    ELSE 200

\* IncomeAPIView.put, the instance i0 with the supplied fields assigned
IncomeAPIView_put_fields(data, i0) ==
    LET i1 == IF Has(data, "category_id")
              THEN [i0 EXCEPT !.category = data.category_id] ELSE i0
        i2 == IF Has(data, "source")
              THEN [i1 EXCEPT !.source = strip(data.source)] ELSE i1
        i3 == IF Has(data, "amount")
              THEN [i2 EXCEPT !.amount = data.amount.val] ELSE i2
        i4 == IF Has(data, "date")
              THEN [i3 EXCEPT !.date = data.date] ELSE i3
    IN  IF Has(data, "note")
        THEN [i4 EXCEPT !.note = strip(data.note)] ELSE i4

\* IncomeAPIView.put, the answer to a request that fails a check
IncomeAPIView_put_refuse(data) ==
    IF Has(data, "category_id") /\ ~CategoryExists(data.category_id)
    THEN RefuseCategory
    ELSE Refuse(IncomeAPIView_put_checks(data))

\* a PUT that saves the instance as soon as a field is assigned, so that a
\* source assigned before a later field is refused stays stored
IncomeAPIView_put_eager(req) ==
    IF ~req.json THEN Refuse(400)
    ELSE IF req.pk \notin DOMAIN incomes THEN Refuse(404)
    ELSE IF IncomeAPIView_put_checks(req.data) # 200
        THEN IF Has(req.data, "source") /\ strip(req.data.source) # <<>>
                /\ now < MaxClock
             THEN /\ SaveIncome(req.pk, [incomes[req.pk] EXCEPT
                                            !.source = strip(req.data.source)])
                  /\ response' = ErrorResponse(IncomeAPIView_put_checks(req.data))
                  /\ UNCHANGED <<categories, categorySeq, incomeSeq, expenses,
                                 expenseSeq>>
             ELSE IncomeAPIView_put_refuse(req.data)
    ELSE LET i5 == IncomeAPIView_put_fields(req.data, incomes[req.pk]) IN
    IF ~AmountColumn(i5.amount).ok THEN Refuse(500)
    ELSE /\ SaveIncome(req.pk, [i5 EXCEPT !.amount = AmountColumn(i5.amount).amount])
         /\ response' = JsonResponse("success", 200, "none")
         /\ UNCHANGED <<categories, categorySeq, incomeSeq, expenses, expenseSeq>>

\* the whole handler, served without another request in between
IncomeAPIView_put(req) ==
    IF ~req.json THEN Refuse(400)
    ELSE IF req.pk \notin DOMAIN incomes THEN Refuse(404)
    ELSE IF IncomeAPIView_put_checks(req.data) # 200
        THEN IncomeAPIView_put_refuse(req.data)
    ELSE LET i5 == IncomeAPIView_put_fields(req.data, incomes[req.pk]) IN
    IF ~AmountColumn(i5.amount).ok THEN Refuse(500)
    ELSE /\ SaveIncome(req.pk, [i5 EXCEPT !.amount = AmountColumn(i5.amount).amount])
         /\ response' = JsonResponse("success", 200, "none")
         /\ UNCHANGED <<categories, categorySeq, incomeSeq, expenses, expenseSeq>>

\* IncomeAPIView.put up to income.save(): worker w reads the row, checks and
\* assigns the supplied fields; a request that fails is answered at once
IncomeAPIView_put_get(w, req) ==
    /\ inflight[w] = Idle
    /\ IF ~req.json THEN Refuse(400) /\ UNCHANGED inflight
       ELSE IF req.pk \notin DOMAIN incomes THEN Refuse(404) /\ UNCHANGED inflight
       ELSE IF IncomeAPIView_put_checks(req.data) # 200
           THEN IncomeAPIView_put_refuse(req.data) /\ UNCHANGED inflight
       ELSE /\ inflight' = [inflight EXCEPT ![w] =
                    [pk |-> req.pk, data |-> req.data,
                     instance |-> IncomeAPIView_put_fields(req.data,
                                                          incomes[req.pk])]]
            /\ UNCHANGED <<categories, categorySeq, incomes, incomeSeq,
                           expenses, expenseSeq, now, response>>

\* Model.save() of an instance read earlier: UPDATE of the row with its pk
\* and, when that updates no row, INSERT of the instance under its pk
save_income(pk, instance) ==
    IF pk \in DOMAIN incomes THEN SaveIncome(pk, instance)
    ELSE /\ now < MaxClock
         /\ now' = now + 1
         /\ incomes' = incomes @@ (pk :>
                [instance EXCEPT !.created_at = now + 1, !.updated_at = now + 1])

\* a PUT that saves and ends without an answer
IncomeAPIView_put_save_silent(w) ==
    /\ inflight[w] # Idle
    /\ inflight' = [inflight EXCEPT ![w] = Idle]
    /\ save_income(inflight[w].pk, inflight[w].instance)
    /\ UNCHANGED <<categories, categorySeq, incomeSeq, expenses, expenseSeq,
                   response>>

\* IncomeAPIView.put from income.save() on: worker w saves and answers
IncomeAPIView_put_save(w) ==
    /\ inflight[w] # Idle
    /\ inflight' = [inflight EXCEPT ![w] = Idle]
    /\ LET i5 == inflight[w].instance IN
       IF ~AmountColumn(i5.amount).ok THEN
            /\ response' = ErrorResponse(500)
            /\ UNCHANGED <<categories, categorySeq, incomes, incomeSeq,
                           expenses, expenseSeq, now>>
       ELSE /\ save_income(inflight[w].pk,
                    [i5 EXCEPT !.amount = AmountColumn(i5.amount).amount])
            /\ response' = JsonResponse("success", 200, "none")
            /\ UNCHANGED <<categories, categorySeq, incomeSeq, expenses,
                           expenseSeq>>

\* a delete that answers an absent id as if it had removed it
IncomeAPIView_delete_silent(req) ==
    /\ incomes' = [i \in DOMAIN incomes \ {req.pk} |-> incomes[i]]
    /\ response' = JsonResponse("success", 200, "none")
    /\ UNCHANGED <<categories, categorySeq, incomeSeq, expenses,
                   expenseSeq, now>>

IncomeAPIView_delete(req) ==
    IF req.pk \notin DOMAIN incomes THEN Refuse(404)
    ELSE /\ DeleteIncome(req.pk)
         /\ response' = JsonResponse("success", 200, "none")
         /\ UNCHANGED <<categories, categorySeq, incomeSeq, expenses,
                        expenseSeq, now>>

----------------------------------------------------------------------------
(* ExpenseAPIView: /api/expense/ and /api/expense/<pk>/ *)

\* ExpenseAPIView.get with pk
ExpenseAPIView_get(pk) ==
    IF pk \notin DOMAIN expenses THEN Refuse(404)
    ELSE /\ response' = [JsonResponse("success", 200, "none") EXCEPT
                !.data = ExpenseData(expenses, pk)]
         /\ UNCHANGED <<categories, categorySeq, incomes, incomeSeq, expenses,
                        expenseSeq, now>>

ExpenseAPIView_post(req) ==
    IF ~req.json THEN Refuse(400)
    ELSE LET data == req.data IN
    IF \E f \in {"title", "amount", "date"} : Missing(data, f) THEN Refuse(400)
    ELSE IF ~IsDate(data.date) THEN Refuse(400)
    ELSE IF ~data.amount.numeric THEN Refuse(500)
    ELSE IF DecLE(data.amount.val, ZERO) THEN Refuse(400)
    ELSE IF ~AmountColumn(data.amount.val).ok THEN Refuse(500)
    ELSE /\ InsertExpense(strip(data.title),
                          AmountColumn(data.amount.val).amount, data.date)
         /\ response' = [JsonResponse("success", 201, "none") EXCEPT
                !.data = [Without(ExpenseData(expenses', expenseSeq'),
                                  "updated_at")
                          EXCEPT !.amount = float(data.amount.val)]]
         /\ UNCHANGED <<categories, categorySeq, incomes, incomeSeq>>

ExpenseAPIView_put(req) ==
    IF ~req.json THEN Refuse(400)
    ELSE IF req.pk \notin DOMAIN expenses THEN Refuse(404)
    ELSE LET data == req.data
             e0 == expenses[req.pk]
             e1 == IF Has(data, "title")
                   THEN [e0 EXCEPT !.title = strip(data.title)] ELSE e0
             e2 == IF Has(data, "amount")
                   THEN [e1 EXCEPT !.amount = data.amount.val] ELSE e1
             e3 == IF Has(data, "date")
                   THEN [e2 EXCEPT !.date = data.date] ELSE e2
         IN
    IF Has(data, "title") /\ strip(data.title) = <<>> THEN Refuse(400)
    ELSE IF Has(data, "amount") /\ ~data.amount.numeric THEN Refuse(500)
    ELSE IF Has(data, "amount") /\ DecLE(data.amount.val, ZERO)
        THEN Refuse(400)
    ELSE IF Has(data, "date") /\ ~IsDate(data.date) THEN Refuse(400)
    ELSE IF ~AmountColumn(e3.amount).ok THEN Refuse(500)
    ELSE /\ SaveExpense(req.pk, [e3 EXCEPT !.amount = AmountColumn(e3.amount).amount])
         /\ response' = JsonResponse("success", 200, "none")
         /\ UNCHANGED <<categories, categorySeq, incomes, incomeSeq, expenseSeq>>

ExpenseAPIView_delete(req) ==
    IF req.pk \notin DOMAIN expenses THEN Refuse(404)
    ELSE /\ DeleteExpense(req.pk)
         /\ response' = JsonResponse("success", 200, "none")
         /\ UNCHANGED <<categories, categorySeq, incomes, incomeSeq,
                        expenseSeq, now>>

----------------------------------------------------------------------------
(* TransactionAPIView: /api/transactions/ *)

\* Category.objects.get_or_create(name='Salary'): the row's id afterwards
SalaryId ==
    IF CategoryByName("Salary") # {}
    THEN CHOOSE c \in CategoryByName("Salary") : TRUE
    ELSE categorySeq + 1

\* a create of the Category without the lookup by name
get_or_create_Salary_always ==
    /\ categories' = categories @@ (categorySeq + 1 :> "Salary")
    /\ categorySeq' = categorySeq + 1

\* Category.objects.get_or_create(name='Salary'): its write
get_or_create_Salary ==
    IF CategoryByName("Salary") # {}
    THEN UNCHANGED <<categories, categorySeq>>
    ELSE /\ categories' = categories @@ (categorySeq + 1 :> "Salary")
         /\ categorySeq' = categorySeq + 1

\* an error response of the income branch, after get_or_create has run
RefuseAfterCategory(code) ==
    /\ response' = ErrorResponse(code)
    /\ get_or_create_Salary
    /\ UNCHANGED <<incomes, incomeSeq, expenses, expenseSeq, now>>

TransactionAPIView_post(req) ==
    IF ~req.json THEN Refuse(400)
    ELSE LET data == req.data IN
    IF ~Has(data, "type") \/ data.type \notin {"income", "expense"}
        THEN Refuse(400)
    ELSE IF \E f \in {"amount", "description"} : Missing(data, f)
        THEN Refuse(400)
    ELSE IF data.type = "income" THEN
        IF ~data.amount.numeric THEN RefuseAfterCategory(500)
        ELSE IF DecLE(data.amount.val, ZERO) THEN RefuseAfterCategory(400)
        ELSE IF ~AmountColumn(data.amount.val).ok THEN RefuseAfterCategory(500)
        ELSE /\ get_or_create_Salary
             /\ InsertIncome(SalaryId, strip(data.description),
                             AmountColumn(data.amount.val).amount, today,
                             IF Has(data, "note") THEN strip(data.note) ELSE <<>>)
             /\ response' = JsonResponse("success", 200, "income")
             /\ UNCHANGED <<expenses, expenseSeq>>
    ELSE
        IF ~data.amount.numeric THEN Refuse(500)
        ELSE IF DecLE(data.amount.val, ZERO) THEN Refuse(400)
        ELSE IF ~AmountColumn(data.amount.val).ok THEN Refuse(500)
        ELSE /\ InsertExpense(strip(data.description),
                              AmountColumn(data.amount.val).amount, today)
             /\ response' = JsonResponse("success", 200, "expense")
             /\ UNCHANGED <<categories, categorySeq, incomes, incomeSeq>>

\* the lookup with Expense probed before Income
Probe_expenseFirst(id) ==
    IF id \in DOMAIN expenses THEN "expense"
    ELSE IF id \in DOMAIN incomes THEN "income"
    ELSE "none"

\* which table the generic resource finds an id in: Income is probed first,
\* Expense only on Income.DoesNotExist
Probe(id) ==
    IF id \in DOMAIN incomes THEN "income"
    ELSE IF id \in DOMAIN expenses THEN "expense"
    ELSE "none"

TransactionAPIView_put(req) ==
    IF ~req.json THEN Refuse(400)
    ELSE LET data == req.data IN
    IF ~Has(data, "id") THEN Refuse(400)
    ELSE IF Probe(data.id) = "none" THEN Refuse(404)
    ELSE IF Has(data, "amount") /\ ~data.amount.numeric THEN Refuse(500)
    ELSE IF Has(data, "amount") /\ DecLE(data.amount.val, ZERO)
        THEN Refuse(400)
    ELSE IF Has(data, "description") /\ strip(data.description) = <<>>
        THEN Refuse(400)
    ELSE IF Probe(data.id) = "income" THEN
        LET i0 == incomes[data.id]
            i1 == IF Has(data, "amount")
                  THEN [i0 EXCEPT !.amount = data.amount.val] ELSE i0
            i2 == IF Has(data, "description")
                  THEN [i1 EXCEPT !.source = strip(data.description)] ELSE i1
        IN  IF ~AmountColumn(i2.amount).ok THEN Refuse(500)
            ELSE /\ SaveIncome(data.id,
                        [i2 EXCEPT !.amount = AmountColumn(i2.amount).amount])
                 /\ response' = JsonResponse("success", 200, "income")
                 /\ UNCHANGED <<categories, categorySeq, incomeSeq, expenses,
                                expenseSeq>>
    ELSE
        LET e0 == expenses[data.id]
            e1 == IF Has(data, "amount")
                  THEN [e0 EXCEPT !.amount = data.amount.val] ELSE e0
            e2 == IF Has(data, "description")
                  THEN [e1 EXCEPT !.title = strip(data.description)] ELSE e1
        IN  IF ~AmountColumn(e2.amount).ok THEN Refuse(500)
            ELSE /\ SaveExpense(data.id,
                        [e2 EXCEPT !.amount = AmountColumn(e2.amount).amount])
                 /\ response' = JsonResponse("success", 200, "expense")
                 /\ UNCHANGED <<categories, categorySeq, incomes, incomeSeq,
                                expenseSeq>>

\* a generic DELETE that removes the id from both tables
TransactionAPIView_delete_both(req) ==
    IF ~req.json THEN Refuse(400)
    ELSE LET data == req.data IN
    IF ~Has(data, "id") THEN Refuse(400)
    ELSE IF Probe(data.id) = "none" THEN Refuse(404)
    ELSE /\ DeleteIncome(data.id)
         /\ DeleteExpense(data.id)
         /\ response' = JsonResponse("success", 200, Probe(data.id))
         /\ UNCHANGED <<categories, categorySeq, incomeSeq, expenseSeq, now>>

TransactionAPIView_delete(req) ==
    IF ~req.json THEN Refuse(400)
    ELSE LET data == req.data IN
    IF ~Has(data, "id") THEN Refuse(400)
    ELSE IF Probe(data.id) = "none" THEN Refuse(404)
    ELSE IF Probe(data.id) = "income" THEN
        /\ DeleteIncome(data.id)
        /\ response' = JsonResponse("success", 200, "income")
        /\ UNCHANGED <<categories, categorySeq, incomeSeq, expenses,
                       expenseSeq, now>>
    ELSE
        /\ DeleteExpense(data.id)
        /\ response' = JsonResponse("success", 200, "expense")
        /\ UNCHANGED <<categories, categorySeq, incomes, incomeSeq,
                       expenseSeq, now>>

----------------------------------------------------------------------------
(* Listings: order_by('-date', '-created_at'), slices and list.sort. *)

\* an ordering that breaks ties of date by the older created_at
Before_oldestFirst(a, b) ==
    a.date > b.date \/ (a.date = b.date /\ a.created_at < b.created_at)

\* row a comes before row b under order_by('-date', '-created_at')
Before(a, b) ==
    a.date > b.date \/ (a.date = b.date /\ a.created_at > b.created_at)

\* Model.objects.order_by('-date', '-created_at'): the ids of a table in order
RECURSIVE order_by(_, _)
order_by(table, ids) ==
    IF ids = {} THEN <<>>
    ELSE LET first == CHOOSE i \in ids :
                        \A j \in ids \ {i} : Before(table[i], table[j])
         IN  <<first>> \o order_by(table, ids \ {first})

\* seq[:n]
Slice(seq, n) == SubSeq(seq, 1, IF Len(seq) < n THEN Len(seq) ELSE n)

\* the entry of a row in a listing
Entry(type, table, id) ==
    [type |-> type, id |-> id, date |-> table[id].date,
     amount |-> table[id].amount]

\* the entries of the rows of a table, in the order of ids
Entries(type, table, ids) ==
    [k \in 1..Len(ids) |-> Entry(type, table, ids[k])]

\* one step of list.sort(key=date, reverse=True): e is put after the entries
\* already placed that are not older than it (the sort is stable)
InsertByDate(sorted, e) ==
    LET n == Cardinality({k \in 1..Len(sorted) : sorted[k].date >= e.date})
    IN  SubSeq(sorted, 1, n) \o <<e>> \o SubSeq(sorted, n + 1, Len(sorted))

\* list.sort(key=lambda x: x['date'], reverse=True)
RECURSIVE SortByDate(_)
SortByDate(seq) ==
    IF seq = <<>> THEN <<>>
    ELSE InsertByDate(SortByDate(SubSeq(seq, 1, Len(seq) - 1)), seq[Len(seq)])

\* the slice of each kind that the dashboard reads
RecentPerKind == 5

\* the length the combined list is cut to
RecentLimit == 10

----------------------------------------------------------------------------
(* DashboardDataAPIView: GET /api/dashboard-data/ *)

\* recent_transactions of the dashboard answer
recent_transactions ==
    LET recent_income   == Slice(order_by(incomes, DOMAIN incomes), RecentPerKind)
        recent_expenses == Slice(order_by(expenses, DOMAIN expenses), RecentPerKind)
    IN  Slice(SortByDate(Entries("income", incomes, recent_income)
                         \o Entries("expense", expenses, recent_expenses)),
              RecentLimit)

DashboardDataAPIView_get ==
    LET total_income   == OrZero(Aggregate(incomes))
        total_expenses == OrZero(Aggregate(expenses))
    IN  /\ response' = [JsonResponse("success", 200, "none") EXCEPT
                !.stats = [totalIncome |-> total_income,
                           totalExpenses |-> total_expenses,
                           currentBalance |-> DecSub(total_income, total_expenses)],
                !.transactions = recent_transactions]
        /\ UNCHANGED <<categories, categorySeq, incomes, incomeSeq, expenses,
                       expenseSeq, now>>

----------------------------------------------------------------------------
(* IncomeForm and ExpenseForm (wallet/forms.py). *)

\* the form field of a text column: required, whitespace stripped
TextFieldValid(data, field) == Has(data, field) /\ strip(data[field]) # <<>>

\* the form field of the amount column: required, a decimal numeral of at
\* most 2 fractional and 8 whole digits
AmountFieldValid(data) ==
    /\ Has(data, "amount")
    /\ data.amount.numeric
    /\ FractionDigits(data.amount.val) <= 2
    /\ DecLE(Dec(-99999999, 0), data.amount.val)
    /\ DecLT(data.amount.val, Dec(100000000, 0))

\* the form field of the date column: required, a calendar date
DateFieldValid(data) == Has(data, "date") /\ IsDate(data.date)

\* the form field of Income.category: required, an existing Category
CategoryFieldValid(data) ==
    Has(data, "category") /\ CategoryExists(data.category)

\* clean_amount raises ValidationError
clean_amount(amount) ==
    DecLE(amount, ZERO) \/ DecLT(MAX_AMOUNT, amount)

\* clean_source / clean_title raises ValidationError
clean_source(source) ==
    source # <<>> /\ (strip(source) = <<>> \/ Len(strip(source)) < 2)

\* date.today().replace(year=date.today().year + 1)
OneYearAhead == ReplaceYear(today, Year(today) + 1)

\* clean_date raises ValidationError (when the limit can be computed)
clean_date(transaction_date) ==
    OneYearAhead.ok /\ transaction_date > OneYearAhead.date

\* clean_date raises ValueError: the limit is not a date
clean_date_crashes == ~OneYearAhead.ok

\* form.errors: the fields of an ExpenseForm bound to data that have errors
ExpenseForm_errors(data) ==
    {f \in {"title"} :
        ~TextFieldValid(data, "title") \/ clean_source(strip(data.title))}
    \cup {f \in {"amount"} :
        ~AmountFieldValid(data) \/ clean_amount(data.amount.val)}
    \cup {f \in {"date"} :
        ~DateFieldValid(data) \/ clean_date(data.date)}

\* form.errors of an IncomeForm bound to data
IncomeForm_errors(data) ==
    {f \in {"category"} : ~CategoryFieldValid(data)}
    \cup {f \in {"source"} :
        ~TextFieldValid(data, "source") \/ clean_source(strip(data.source))}
    \cup {f \in {"amount"} :
        ~AmountFieldValid(data) \/ clean_amount(data.amount.val)}
    \cup {f \in {"date"} :
        ~DateFieldValid(data) \/ clean_date(data.date)}

\* is_valid() does not return: clean_date runs on a parsed date and raises
Form_crashes(data) == DateFieldValid(data) /\ clean_date_crashes

\* the answer of a form view: 302 redirect, 200 re-rendered form with
\* errors, 404, or 500 on an exception
FormResponse(code, type, errors) ==
    [status |-> IF code = 302 THEN "success" ELSE "error", code |-> code,
     type |-> type, errors |-> errors, stats |-> NoStats,
     transactions |-> <<>>, data |-> NoData, message |-> "",
     filters |-> NoData]

RefuseForm(code, errors) ==
    /\ response' = FormResponse(code, "none", errors)
    /\ UNCHANGED <<categories, categorySeq, incomes, incomeSeq, expenses,
                   expenseSeq, now>>

----------------------------------------------------------------------------
(* IncomeListView and ExpenseListView: the filtered, paginated list pages.  *)
(* GET is the query string: a function from the keys it carries to values.  *)

\* the letters of the texts in use, lowered
Lower(c) ==
    IF c = "B" THEN "b" ELSE IF c = "C" THEN "c" ELSE IF c = "S" THEN "s" ELSE c

lower(text) == [k \in 1..Len(text) |-> Lower(text[k])]

\* q occurs in text
Contains(text, q) ==
    \E k \in 0..(Len(text) - Len(q)) : SubSeq(text, k + 1, k + Len(q)) = q

\* the lookup __icontains
icontains(text, q) == Contains(lower(text), lower(q))

\* the name of a Category as a text
NameText(name) ==
    IF name = "Business" THEN <<"B", "u", "s", "i", "n", "e", "s", "s">>
    ELSE IF name = "Salary" THEN <<"S", "a", "l", "a", "r", "y">>
    ELSE <<>>

\* request.GET.get(key, '').strip() is not empty
Given(GET, key) == Has(GET, key) /\ strip(GET[key]) # <<>>

\* the date and amount keys hold values, not texts: one is given when present
GivenValue(GET, key) == Has(GET, key)

\* a lower bound that lets the bound itself out
AtLeast_exclusive(a, b) == DecLT(b, a)

\* amount__gte
AtLeast(a, b) == DecLE(b, a)

\* the filters on date and amount that both views apply; a date that does
\* not parse raises ValueError and the filter is passed over
DateAmountMatch(row, GET) ==
    /\ (GivenValue(GET, "date_from") /\ IsDate(GET.date_from))
            => row.date >= GET.date_from
    /\ (GivenValue(GET, "date_to") /\ IsDate(GET.date_to))
            => row.date <= GET.date_to
    /\ GivenValue(GET, "amount_min") => AtLeast(row.amount, GET.amount_min.val)
    /\ GivenValue(GET, "amount_max") => DecLE(row.amount, GET.amount_max.val)

\* Decimal(amount_min) or Decimal(amount_max) raises InvalidOperation, which
\* `except (ValueError, TypeError)` lets through
get_queryset_raises(GET) ==
    \/ GivenValue(GET, "amount_min") /\ ~GET.amount_min.numeric
    \/ GivenValue(GET, "amount_max") /\ ~GET.amount_max.numeric

\* the rows of the Income table that the filters of the query string keep
IncomeFiltered(GET) ==
    {i \in DOMAIN incomes :
        /\ Given(GET, "search") =>
                \/ icontains(incomes[i].source, strip(GET.search))
                \/ icontains(incomes[i].note, strip(GET.search))
                \/ icontains(NameText(categories[incomes[i].category]),
                             strip(GET.search))
        /\ Given(GET, "category") =>
                NameText(categories[incomes[i].category]) = strip(GET.category)
        /\ DateAmountMatch(incomes[i], GET)}

\* the rows of the Expense table that the filters keep
ExpenseFiltered(GET) ==
    {i \in DOMAIN expenses :
        /\ Given(GET, "search") =>
                icontains(expenses[i].title, strip(GET.search))
        /\ DateAmountMatch(expenses[i], GET)}

\* IncomeListView.get_queryset
IncomeListView_get_queryset(GET) == order_by(incomes, IncomeFiltered(GET))

\* ExpenseListView.get_queryset
ExpenseListView_get_queryset(GET) == order_by(expenses, ExpenseFiltered(GET))

\* paginate_by of both views
paginate_by == 10

\* Paginator.num_pages: an empty list has one empty page
num_pages(count, per_page) ==
    IF count = 0 THEN 1 ELSE (count + per_page - 1) \div per_page

\* a page that takes the first row of the next page along
page_of_overlapping(object_list, number, per_page) ==
    SubSeq(object_list, (number - 1) * per_page + 1,
           IF number * per_page + 1 < Len(object_list)
           THEN number * per_page + 1 ELSE Len(object_list))

\* Paginator(object_list, per_page).page(number).object_list
page_of(object_list, number, per_page) ==
    SubSeq(object_list, (number - 1) * per_page + 1,
           IF number * per_page < Len(object_list)
           THEN number * per_page ELSE Len(object_list))

\* the answer of a list view: the page, the total of the filtered rows and
\* the filters of the query string, which get_context_data hands back
ListResponse(type, table, object_list, number, GET) ==
    [FormResponse(200, "none", {}) EXCEPT
        !.status = "success",
        !.filters = GET,
        !.transactions = Entries(type, table, page_of(object_list, number, paginate_by)),
        !.stats = [NoStats EXCEPT !.totalIncome =
            IF type = "income"
            THEN SumRows(table, {object_list[k] : k \in 1..Len(object_list)})
            ELSE None,
                                  !.totalExpenses =
            IF type = "expense"
            THEN SumRows(table, {object_list[k] : k \in 1..Len(object_list)})
            ELSE None]]

\* IncomeListView.get: 500 when get_queryset raises, 404 for a page that
\* does not exist
IncomeListView_get(GET, number) ==
    IF get_queryset_raises(GET) THEN RefuseForm(500, {})
    ELSE LET object_list == IncomeListView_get_queryset(GET) IN
    IF number < 1 \/ number > num_pages(Len(object_list), paginate_by)
        THEN RefuseForm(404, {})
    ELSE /\ response' = ListResponse("income", incomes, object_list, number,
                                      GET)
         /\ UNCHANGED <<categories, categorySeq, incomes, incomeSeq, expenses,
                        expenseSeq, now>>

\* ExpenseListView.get
ExpenseListView_get(GET, number) ==
    IF get_queryset_raises(GET) THEN RefuseForm(500, {})
    ELSE LET object_list == ExpenseListView_get_queryset(GET) IN
    IF number < 1 \/ number > num_pages(Len(object_list), paginate_by)
        THEN RefuseForm(404, {})
    ELSE /\ response' = ListResponse("expense", expenses, object_list, number,
                                      GET)
         /\ UNCHANGED <<categories, categorySeq, incomes, incomeSeq, expenses,
                        expenseSeq, now>>

----------------------------------------------------------------------------
(* GET /api/income/ and GET /api/expense/ without pk: the whole table. *)

IncomeAPIView_get_list ==
    LET income_list  == order_by(incomes, DOMAIN incomes)
        total_income == OrZero(Aggregate(incomes))
    IN  /\ response' = [JsonResponse("success", 200, "none") EXCEPT
                !.stats = [NoStats EXCEPT !.totalIncome = total_income],
                !.transactions = Entries("income", incomes, income_list)]
        /\ UNCHANGED <<categories, categorySeq, incomes, incomeSeq, expenses,
                       expenseSeq, now>>

\* IncomeAPIView.get without pk, up to the end of the loop over income_list:
\* worker w has read the rows
IncomeAPIView_get_list_read(w) ==
    /\ inflight[w] = Idle
    /\ inflight' = [inflight EXCEPT ![w] =
            [pk |-> 0, instance |-> NoData,
             data |-> [transactions |->
                Entries("income", incomes, order_by(incomes, DOMAIN incomes))]]]
    /\ UNCHANGED <<categories, categorySeq, incomes, incomeSeq, expenses,
                   expenseSeq, now, response>>

\* IncomeAPIView.get without pk, from Income.objects.aggregate on: worker w
\* reads the total and answers
IncomeAPIView_get_list_aggregate(w) ==
    /\ Has(inflight[w].data, "transactions")
    /\ inflight' = [inflight EXCEPT ![w] = Idle]
    /\ response' = [JsonResponse("success", 200, "none") EXCEPT
            !.stats = [NoStats EXCEPT
                            !.totalIncome = OrZero(Aggregate(incomes))],
            !.transactions = inflight[w].data.transactions]
    /\ UNCHANGED <<categories, categorySeq, incomes, incomeSeq, expenses,
                   expenseSeq, now>>

ExpenseAPIView_get_list ==
    LET expense_list   == order_by(expenses, DOMAIN expenses)
        total_expenses == OrZero(Aggregate(expenses))
    IN  /\ response' = [JsonResponse("success", 200, "none") EXCEPT
                !.stats = [NoStats EXCEPT !.totalExpenses = total_expenses],
                !.transactions = Entries("expense", expenses, expense_list)]
        /\ UNCHANGED <<categories, categorySeq, incomes, incomeSeq, expenses,
                       expenseSeq, now>>

----------------------------------------------------------------------------
(* Form views: /income/add/, /income/<pk>/edit/, /income/<pk>/delete/ and *)
(* the same for /expense/.                                                *)

IncomeCreateView_post(req) ==
    LET data == req.data IN
    IF Form_crashes(data) THEN RefuseForm(500, {})
    ELSE IF IncomeForm_errors(data) # {}
        THEN RefuseForm(200, IncomeForm_errors(data))
    ELSE /\ InsertIncome(data.category, strip(data.source), data.amount.val,
                         data.date,
                         IF Has(data, "note") THEN strip(data.note) ELSE <<>>)
         /\ response' = FormResponse(302, "income", {})
         /\ UNCHANGED <<categories, categorySeq, expenses, expenseSeq>>

IncomeUpdateView_post(req) ==
    LET data == req.data IN
    IF req.pk \notin DOMAIN incomes THEN RefuseForm(404, {})
    ELSE IF Form_crashes(data) THEN RefuseForm(500, {})
    ELSE IF IncomeForm_errors(data) # {}
        THEN RefuseForm(200, IncomeForm_errors(data))
    ELSE /\ SaveIncome(req.pk,
                [incomes[req.pk] EXCEPT
                    !.category = data.category,
                    !.source = strip(data.source),
                    !.amount = data.amount.val,
                    !.date = data.date,
                    !.note = IF Has(data, "note") THEN strip(data.note)
                             ELSE <<>>])
         /\ response' = FormResponse(302, "income", {})
         /\ UNCHANGED <<categories, categorySeq, incomeSeq, expenses, expenseSeq>>

IncomeDeleteView_post(req) ==
    IF req.pk \notin DOMAIN incomes THEN RefuseForm(404, {})
    ELSE /\ DeleteIncome(req.pk)
         /\ response' = FormResponse(302, "income", {})
         /\ UNCHANGED <<categories, categorySeq, incomeSeq, expenses,
                        expenseSeq, now>>

ExpenseCreateView_post(req) ==
    LET data == req.data IN
    IF Form_crashes(data) THEN RefuseForm(500, {})
    ELSE IF ExpenseForm_errors(data) # {}
        THEN RefuseForm(200, ExpenseForm_errors(data))
    ELSE /\ InsertExpense(strip(data.title), data.amount.val, data.date)
         /\ response' = FormResponse(302, "expense", {})
         /\ UNCHANGED <<categories, categorySeq, incomes, incomeSeq>>

ExpenseUpdateView_post(req) ==
    LET data == req.data IN
    IF req.pk \notin DOMAIN expenses THEN RefuseForm(404, {})
    ELSE IF Form_crashes(data) THEN RefuseForm(500, {})
    ELSE IF ExpenseForm_errors(data) # {}
        THEN RefuseForm(200, ExpenseForm_errors(data))
    ELSE /\ SaveExpense(req.pk,
                [expenses[req.pk] EXCEPT
                    !.title = strip(data.title),
                    !.amount = data.amount.val,
                    !.date = data.date])
         /\ response' = FormResponse(302, "expense", {})
         /\ UNCHANGED <<categories, categorySeq, incomes, incomeSeq, expenseSeq>>

ExpenseDeleteView_post(req) ==
    IF req.pk \notin DOMAIN expenses THEN RefuseForm(404, {})
    ELSE /\ DeleteExpense(req.pk)
         /\ response' = FormResponse(302, "expense", {})
         /\ UNCHANGED <<categories, categorySeq, incomes, incomeSeq,
                        expenseSeq, now>>

----------------------------------------------------------------------------
(* The requests the environment sends. *)

T_ab == <<"a", "b">>

T_cd == <<" ", "c", "d", " ">>

T_a == <<"a">>

T_blank == <<" ">>

T_note == <<"n">>

A100 == Str(100, 0)

A250 == Str(250, 500)

ANeg == Str(-5, 0)

AZero == Num(0, 0)

AOver == Str(100000000, 0)

\* an amount of three fractional digits, which the column rounds to 20.00
AFine == Str(19, 995)

\* a positive amount below one cent
ATiny == Str(0, 1)

\* the text 'yyyy-mm-dd' (or the date it names)
Date(y, mth, d) == (y * 10000) + (mth * 100) + d

D1 == Date(2028, 1, 15)

D2 == Date(2028, 2, 20)

\* more than a year after every day of the model
DFar == Date(2030, 3, 1)

\* a text that names no date
DBad == Date(2028, 13, 45)

FirstDay == Date(2028, 2, 28)

LastDay == Date(2028, 3, 1)

Ids == 1..MaxId

IncomeBody ==
    [category_id |-> 1, source |-> T_cd, amount |-> A250, date |-> D1,
     note |-> T_note]

IncomePostRequests ==
    {Req(0, IncomeBody), Malformed(0),
     Req(0, Without(IncomeBody, "date")),
     Req(0, [IncomeBody EXCEPT !.category_id = 9]),
     Req(0, [IncomeBody EXCEPT !.date = DBad]),
     Req(0, [IncomeBody EXCEPT !.amount = ANeg]),
     Req(0, [IncomeBody EXCEPT !.amount = NotANumber]),
     Req(0, [IncomeBody EXCEPT !.amount = AOver])}

IncomePutBodies ==
    {[source |-> T_blank],
     [amount |-> A100], [amount |-> ANeg],
     [category_id |-> 2], [category_id |-> 9],
     [date |-> D2, note |-> <<>>],
     [source |-> T_ab, amount |-> ANeg]}

IncomePutRequests ==
    {Req(pk, data) : pk \in Ids, data \in IncomePutBodies}
    \cup {Malformed(1)}

ExpenseBody == [title |-> T_ab, amount |-> A100, date |-> D2]

ExpensePostRequests ==
    {Req(0, ExpenseBody), Malformed(0),
     Req(0, Without(ExpenseBody, "amount")),
     Req(0, [ExpenseBody EXCEPT !.amount = ANeg])}

ExpensePutBodies ==
    {[title |-> T_cd], [title |-> T_blank],
     [amount |-> AFine], [amount |-> ANeg],
     [date |-> DBad]}

ExpensePutRequests ==
    {Req(pk, data) : pk \in Ids, data \in ExpensePutBodies}
    \cup {Malformed(1)}

DeleteRequests == {Req(pk, [k \in {} |-> 0]) : pk \in Ids}

TransactionPostRequests ==
    {Req(0, [type |-> "income", amount |-> A100, description |-> T_ab]),
     Req(0, [type |-> "income", amount |-> ANeg, description |-> T_ab]),
     Req(0, [type |-> "expense", amount |-> A250, description |-> T_cd]),
     Req(0, [type |-> "expense", amount |-> A250]),
     Req(0, [type |-> "transfer", amount |-> A250, description |-> T_cd]),
     Malformed(0)}

TransactionPutRequests ==
    {Req(0, [id |-> id, amount |-> A250, description |-> T_cd]) : id \in Ids}
    \cup {Req(0, [id |-> id, amount |-> ANeg]) : id \in Ids}
    \cup {Req(0, [amount |-> A250]), Malformed(0)}

TransactionDeleteRequests ==
    {Req(0, [id |-> id]) : id \in Ids}
    \cup {Req(0, [k \in {} |-> 0]), Malformed(0)}

IncomeFormData ==
    [category |-> 1, source |-> T_cd, amount |-> A250, date |-> D1,
     note |-> T_note]

IncomeFormRequests ==
    {Req(pk, data) : pk \in Ids,
        data \in {IncomeFormData, [IncomeFormData EXCEPT !.source = T_a]}}

ExpenseFormData == [title |-> T_ab, amount |-> A100, date |-> D2]

ExpenseFormRequests ==
    {Req(pk, data) : pk \in Ids,
        data \in {ExpenseFormData, [ExpenseFormData EXCEPT !.amount = AZero]}}

----------------------------------------------------------------------------
(* The system: the handlers, each answering one request in one step. *)

Init ==
    /\ categories = (1 :> "Business")
    /\ categorySeq = 1
    /\ incomes = [i \in {} |-> 0]
    /\ incomeSeq = 0
    /\ expenses = [i \in {} |-> 0]
    /\ expenseSeq = 0
    /\ today = FirstDay
    /\ now = 0
    /\ response = NoResponse
    /\ inflight = [w \in Workers |-> Idle]

IncomeApiPost ==
    \E req \in IncomePostRequests :
        UNCHANGED <<today, inflight>> /\ IncomeAPIView_post(req)

IncomeApiPut ==
    \E req \in IncomePutRequests :
        UNCHANGED <<today, inflight>> /\ IncomeAPIView_put(req)

IncomeApiDelete ==
    \E req \in DeleteRequests :
        UNCHANGED <<today, inflight>> /\ IncomeAPIView_delete(req)

ExpenseApiPost ==
    \E req \in ExpensePostRequests :
        UNCHANGED <<today, inflight>> /\ ExpenseAPIView_post(req)

ExpenseApiPut ==
    \E req \in ExpensePutRequests :
        UNCHANGED <<today, inflight>> /\ ExpenseAPIView_put(req)

ExpenseApiDelete ==
    \E req \in DeleteRequests :
        UNCHANGED <<today, inflight>> /\ ExpenseAPIView_delete(req)

TransactionApiPost ==
    \E req \in TransactionPostRequests :
        UNCHANGED <<today, inflight>> /\ TransactionAPIView_post(req)

TransactionApiPut ==
    \E req \in TransactionPutRequests :
        UNCHANGED <<today, inflight>> /\ TransactionAPIView_put(req)

TransactionApiDelete ==
    \E req \in TransactionDeleteRequests :
        UNCHANGED <<today, inflight>> /\ TransactionAPIView_delete(req)

DashboardGet ==
    UNCHANGED <<today, inflight>> /\ DashboardDataAPIView_get

IncomeFormCreate ==
    \E req \in IncomeFormRequests :
        req.pk = 1 /\ UNCHANGED <<today, inflight>> /\ IncomeCreateView_post(req)

IncomeFormUpdate ==
    \E req \in IncomeFormRequests :
        UNCHANGED <<today, inflight>> /\ IncomeUpdateView_post(req)

IncomeFormDelete ==
    \E req \in DeleteRequests :
        UNCHANGED <<today, inflight>> /\ IncomeDeleteView_post(req)

ExpenseFormCreate ==
    \E req \in ExpenseFormRequests :
        req.pk = 1 /\ UNCHANGED <<today, inflight>> /\ ExpenseCreateView_post(req)

ExpenseFormUpdate ==
    \E req \in ExpenseFormRequests :
        UNCHANGED <<today, inflight>> /\ ExpenseUpdateView_post(req)

ExpenseFormDelete ==
    \E req \in DeleteRequests :
        UNCHANGED <<today, inflight>> /\ ExpenseDeleteView_post(req)

\* the day after d
Tomorrow(d) ==
    IF Day(d) < DaysInMonth(Year(d), Month(d)) THEN d + 1
    ELSE IF Month(d) < 12 THEN Date(Year(d), Month(d) + 1, 1)
    ELSE Date(Year(d) + 1, 1, 1)

\* midnight passes
NextDay ==
    /\ today < LastDay
    /\ today' = Tomorrow(today)
    /\ UNCHANGED <<categories, categorySeq, incomes, incomeSeq, expenses,
                   expenseSeq, now, response, inflight>>

\* the JSON API
ApiNext ==
    \/ IncomeApiPost
    \/ IncomeApiPut
    \/ IncomeApiDelete
    \/ ExpenseApiPost
    \/ ExpenseApiPut
    \/ ExpenseApiDelete
    \/ TransactionApiPost
    \/ TransactionApiPut
    \/ TransactionApiDelete
    \/ DashboardGet

\* the form views
FormNext ==
    \/ IncomeFormCreate
    \/ IncomeFormUpdate
    \/ IncomeFormDelete
    \/ ExpenseFormCreate
    \/ ExpenseFormUpdate
    \/ ExpenseFormDelete

Next == ApiNext \/ FormNext

\* every handler
Spec == Init /\ [][Next]_vars

\* the JSON API alone
SpecApi == Init /\ [][ApiNext]_vars

----------------------------------------------------------------------------
(* The same input on the form path and on the JSON path, over several days. *)

\* what a user types: a text, an amount and a date
ValidInput == [text |-> T_ab, amount |-> A100, date |-> D1]

\* the valid input, and the inputs that break one rule each
ValidationInputs ==
    {ValidInput,
     [ValidInput EXCEPT !.text = T_a],
     [ValidInput EXCEPT !.text = T_blank],
     [ValidInput EXCEPT !.amount = ANeg],
     [ValidInput EXCEPT !.amount = AZero],
     [ValidInput EXCEPT !.amount = Str(99999999, 990)],
     [ValidInput EXCEPT !.amount = AOver],
     [ValidInput EXCEPT !.date = DFar]}

IncomeFormOf(in) ==
    [category |-> 1, source |-> in.text, amount |-> in.amount, date |-> in.date]

IncomeJsonOf(in) ==
    [category_id |-> 1, source |-> in.text, amount |-> in.amount,
     date |-> in.date]

ExpenseFormOf(in) == [title |-> in.text, amount |-> in.amount, date |-> in.date]

ExpenseJsonOf(in) == ExpenseFormOf(in)

SubmitIncomeForm ==
    \E in \in ValidationInputs :
        UNCHANGED <<today, inflight>> /\ IncomeCreateView_post(Req(0, IncomeFormOf(in)))

SubmitIncomeJson ==
    \E in \in ValidationInputs :
        UNCHANGED <<today, inflight>> /\ IncomeAPIView_post(Req(0, IncomeJsonOf(in)))

SubmitExpenseForm ==
    \E in \in ValidationInputs :
        UNCHANGED <<today, inflight>> /\ ExpenseCreateView_post(Req(0, ExpenseFormOf(in)))

SubmitExpenseJson ==
    \E in \in ValidationInputs :
        UNCHANGED <<today, inflight>> /\ ExpenseAPIView_post(Req(0, ExpenseJsonOf(in)))

EditExpenseForm ==
    \E in \in ValidationInputs, pk \in Ids :
        UNCHANGED <<today, inflight>> /\ ExpenseUpdateView_post(Req(pk, ExpenseFormOf(in)))

EditExpenseJson ==
    \E in \in ValidationInputs, pk \in Ids :
        UNCHANGED <<today, inflight>> /\ ExpenseAPIView_put(Req(pk, ExpenseJsonOf(in)))

\* amounts of more than two fractional digits, which only a JSON body carries
FineAmounts == {ATiny, AFine}

SubmitFineAmountJson ==
    \E a \in FineAmounts :
        /\ UNCHANGED <<today, inflight>>
        /\ ExpenseAPIView_post(
                Req(0, ExpenseJsonOf([ValidInput EXCEPT !.amount = a])))

ValidationNext ==
    \/ SubmitFineAmountJson
    \/ SubmitIncomeForm
    \/ SubmitIncomeJson
    \/ SubmitExpenseForm
    \/ SubmitExpenseJson
    \/ EditExpenseForm
    \/ EditExpenseJson
    \/ NextDay

SpecValidation == Init /\ [][ValidationNext]_vars

----------------------------------------------------------------------------
(* Listings of a store that earlier creates have filled. *)

\* rows per table in the stores listed
MaxRows == 6

ListingDates == {D1, D2}

\* the row that POST /api/income/ with IncomeBody makes, for a date and a clock
IncomeRow(date, stamp) ==
    [category |-> 1, source |-> strip(T_cd), amount |-> A250.val,
     date |-> date, note |-> strip(T_note),
     created_at |-> stamp, updated_at |-> stamp]

\* the row that POST /api/expense/ with ExpenseBody makes
ExpenseRow(date, stamp) ==
    [title |-> strip(T_ab), amount |-> A100.val, date |-> date,
     created_at |-> stamp, updated_at |-> stamp]

\* the store after n Income and then m Expense creates, of any dates
InitListing ==
    /\ categories = (1 :> "Business")
    /\ categorySeq = 1
    /\ \E n \in 0..MaxRows, m \in 0..MaxRows :
        \E di \in [1..n -> ListingDates], de \in [1..m -> ListingDates] :
            /\ incomes = [i \in 1..n |-> IncomeRow(di[i], i)]
            /\ incomeSeq = n
            /\ expenses = [i \in 1..m |-> ExpenseRow(de[i], n + i)]
            /\ expenseSeq = m
            /\ now = n + m
    /\ today = FirstDay
    /\ response = NoResponse
    /\ inflight = [w \in Workers |-> Idle]

IncomeApiList ==
    UNCHANGED <<today, inflight>> /\ IncomeAPIView_get_list

ExpenseApiList ==
    UNCHANGED <<today, inflight>> /\ ExpenseAPIView_get_list

ListingNext ==
    \/ DashboardGet
    \/ IncomeApiList
    \/ ExpenseApiList

SpecListing == InitListing /\ [][ListingNext]_vars

----------------------------------------------------------------------------
(* Requests on /api/income/ served side by side: a PUT reads its row in one *)
(* step and saves it in a later one, other requests may come in between.    *)

\* the PUTs served side by side: of one field, of two fields, refused
ConcurrentPutRequests ==
    {Req(pk, data) : pk \in Ids,
                     data \in {[amount |-> A100], [date |-> D2, note |-> <<>>],
                               [category_id |-> 9]}}

IncomePutGet ==
    \E w \in Workers, req \in ConcurrentPutRequests :
        UNCHANGED today /\ IncomeAPIView_put_get(w, req)

IncomePutSave ==
    \E w \in Workers :
        UNCHANGED today /\ IncomeAPIView_put_save(w)

IncomeApiGet ==
    \E pk \in Ids :
        UNCHANGED <<today, inflight>> /\ IncomeAPIView_get(pk)

ConcurrentNext ==
    \/ IncomeApiPost
    \/ IncomeApiGet
    \/ IncomePutGet
    \/ IncomePutSave
    \/ IncomeApiDelete

SpecConcurrent == Init /\ [][ConcurrentNext]_vars

\* a PUT served from start to end while another PUT is between its read and
\* its save
IncomeApiPutBeside ==
    \E req \in ConcurrentPutRequests :
        UNCHANGED <<today, inflight>> /\ IncomeAPIView_put(req)

OverlapNext ==
    \/ IncomeApiPost
    \/ IncomePutGet
    \/ IncomeApiPutBeside
    \/ IncomePutSave

SpecOverlap == Init /\ [][OverlapNext]_vars

\* the same, with the creates and updates of /api/transactions/, which are
\* answered in one step
AnsweredNext ==
    \/ IncomePutGet
    \/ IncomePutSave
    \/ IncomeApiDelete
    \/ TransactionApiPost
    \/ TransactionApiPut

SpecAnswered == Init /\ [][AnsweredNext]_vars

----------------------------------------------------------------------------
(* The requests that name a record by its id, and the creates that fill the *)
(* two tables for them.                                                     *)

\* requests whose category_id names no Category and whose next field is
\* refused too
UnknownCategoryPosts ==
    {Req(0, [IncomeBody EXCEPT !.category_id = 9, !.amount = NotANumber]),
     Req(0, [IncomeBody EXCEPT !.category_id = 9, !.date = DBad])}

UnknownCategoryPuts ==
    {Req(pk, data) : pk \in Ids,
                     data \in {[category_id |-> 9, amount |-> NotANumber],
                               [category_id |-> 9, source |-> T_blank]}}

IncomeApiPostUnknownCategory ==
    \E req \in UnknownCategoryPosts :
        UNCHANGED <<today, inflight>> /\ IncomeAPIView_post(req)

IncomeApiPutUnknownCategory ==
    \E req \in UnknownCategoryPuts :
        UNCHANGED <<today, inflight>> /\ IncomeAPIView_put(req)

ByIdNext ==
    \/ IncomeApiPostUnknownCategory
    \/ IncomeApiPutUnknownCategory
    \/ IncomeApiPost
    \/ ExpenseApiPost
    \/ IncomeApiPut
    \/ ExpenseApiPut
    \/ TransactionApiPut
    \/ IncomeApiDelete
    \/ ExpenseApiDelete
    \/ TransactionApiDelete

SpecById == Init /\ [][ByIdNext]_vars

----------------------------------------------------------------------------
(* Creates with valid bodies on /api/income/ and /api/expense/, and the GETs *)
(* of one record that read them back.                                       *)

ValidIncomeBodies ==
    {[category_id |-> 1, source |-> src, amount |-> a, date |-> D1,
      note |-> T_note] : src \in {T_ab, T_cd}, a \in {A100, A250}}
    \cup {[category_id |-> 1, source |-> T_ab, amount |-> A100, date |-> D2]}

ValidExpenseBodies ==
    {[title |-> t, amount |-> a, date |-> D2] :
        t \in {T_ab, T_cd}, a \in {A100, A250}}

CreateValidIncome ==
    \E data \in ValidIncomeBodies :
        UNCHANGED <<today, inflight>> /\ IncomeAPIView_post(Req(0, data))

CreateValidExpense ==
    \E data \in ValidExpenseBodies :
        UNCHANGED <<today, inflight>> /\ ExpenseAPIView_post(Req(0, data))

ExpenseApiGet ==
    \E pk \in Ids :
        UNCHANGED <<today, inflight>> /\ ExpenseAPIView_get(pk)

RoundTripNext ==
    \/ CreateValidIncome
    \/ CreateValidExpense
    \/ IncomeApiGet
    \/ ExpenseApiGet

SpecRoundTrip == Init /\ [][RoundTripNext]_vars

----------------------------------------------------------------------------
(* The list pages of a store of a few rows that differ in every column the  *)
(* filters look at.                                                         *)

\* rows per table in the stores filtered
MaxFiltered == 2

T_Cd == <<"C", "d">>

Q_c == <<"c">>

Q_sal == <<" ", "s", "a", "l">>

\* the rows a table is filled from
FilterRows ==
    {[category |-> c[1], source |-> c[2], amount |-> r[2], date |-> r[1],
      note |-> T_note] :
        c \in {<<1, T_ab>>, <<2, T_Cd>>},
        r \in {<<D1, A100.val>>, <<D2, A250.val>>}}

\* n Income rows, and the Expense rows of the same texts, amounts and dates
InitFilter ==
    /\ categories = (1 :> "Business") @@ (2 :> "Salary")
    /\ categorySeq = 2
    /\ \E n \in 0..MaxFiltered :
        \E rows \in [1..n -> FilterRows] :
            /\ incomes = [i \in 1..n |->
                    [category |-> rows[i].category, source |-> rows[i].source,
                     amount |-> rows[i].amount, date |-> rows[i].date,
                     note |-> rows[i].note,
                     created_at |-> i, updated_at |-> i]]
            /\ incomeSeq = n
            /\ expenses = [i \in 1..n |->
                    [title |-> rows[i].source, amount |-> rows[i].amount,
                     date |-> rows[i].date,
                     created_at |-> n + i, updated_at |-> n + i]]
            /\ expenseSeq = n
            /\ now = n + n
    /\ today = FirstDay
    /\ response = NoResponse
    /\ inflight = [w \in Workers |-> Idle]

FilterKeys ==
    {"search", "category", "date_from", "date_to", "amount_min", "amount_max"}

\* a value of each key that meets some row at its bound
FilterValues ==
    [search |-> Q_c, category |-> NameText("Salary"),
     date_from |-> D2, date_to |-> D1, amount_min |-> A250, amount_max |-> A100]

\* a second value of each key
OtherValues ==
    [search |-> Q_sal, category |-> NameText("Business"),
     date_from |-> D1, date_to |-> D2, amount_min |-> A100, amount_max |-> A250]

\* the query strings: any subset of the keys with the first values, one key
\* with the second
FilterSpecs ==
    {[k \in K |-> FilterValues[k]] : K \in SUBSET FilterKeys}
    \cup {[k \in {key} |-> OtherValues[k]] : key \in FilterKeys}

\* the query strings of the Expense list, which has no category filter
ExpenseFilterSpecs == {f \in FilterSpecs : ~Has(f, "category")}

\* a value of each date and amount key that does not parse
Unparsable ==
    [date_from |-> DBad, date_to |-> DBad,
     amount_min |-> NotANumber, amount_max |-> NotANumber]

\* query strings of which one date or amount value does not parse
MalformedSpecs ==
    {[k \in K \cup {bad} |->
            IF k = bad THEN Unparsable[k] ELSE FilterValues[k]] :
        bad \in DOMAIN Unparsable, K \in SUBSET {"search", "date_from"}}

IncomeListFiltered ==
    \E GET \in FilterSpecs :
        UNCHANGED <<today, inflight>> /\ IncomeListView_get(GET, 1)

ExpenseListFiltered ==
    \E GET \in ExpenseFilterSpecs :
        UNCHANGED <<today, inflight>> /\ ExpenseListView_get(GET, 1)

IncomeListMalformed ==
    \E GET \in MalformedSpecs :
        UNCHANGED <<today, inflight>> /\ IncomeListView_get(GET, 1)

ExpenseListMalformed ==
    \E GET \in MalformedSpecs :
        UNCHANGED <<today, inflight>> /\ ExpenseListView_get(GET, 1)

FilterNext ==
    \/ IncomeListFiltered
    \/ ExpenseListFiltered
    \/ IncomeListMalformed
    \/ ExpenseListMalformed

SpecFilter == InitFilter /\ [][FilterNext]_vars

----------------------------------------------------------------------------
(* GET /api/income/ served in two steps, the read of the rows and the read  *)
(* of the total, with creates that commit in between.                       *)

IncomeListRead ==
    \E w \in Workers :
        UNCHANGED today /\ IncomeAPIView_get_list_read(w)

IncomeListAggregate ==
    \E w \in Workers :
        UNCHANGED today /\ IncomeAPIView_get_list_aggregate(w)

ListRaceNext ==
    \/ CreateValidIncome
    \/ IncomeListRead
    \/ IncomeListAggregate

SpecListRace == Init /\ [][ListRaceNext]_vars

----------------------------------------------------------------------------
(* PUTs of several fields of which one is refused, on records made by valid *)
(* creates.                                                                 *)

\* bodies of /api/income/<pk>/ whose refused field comes after valid ones, or
\* before them, and one that is accepted
SeveralIncomeFields ==
    {[source |-> T_ab, amount |-> ANeg],
     [category_id |-> 1, source |-> T_ab, date |-> DBad],
     [source |-> T_ab, amount |-> NotANumber, note |-> <<>>],
     [category_id |-> 9, amount |-> A100],
     [source |-> T_ab, amount |-> A100]}

\* bodies of /api/expense/<pk>/
SeveralExpenseFields ==
    {[title |-> T_cd, amount |-> ANeg],
     [title |-> T_cd, amount |-> AFine, date |-> DBad],
     [title |-> T_blank, amount |-> AFine],
     [title |-> T_cd, amount |-> AFine]}

\* bodies of /api/transactions/
SeveralTransactionFields ==
    {[id |-> id, amount |-> A100, description |-> T_blank] : id \in Ids}
    \cup {[id |-> id, amount |-> NotANumber, description |-> T_ab] : id \in Ids}

CreateOneIncome ==
    UNCHANGED <<today, inflight>> /\ IncomeAPIView_post(Req(0, IncomeBody))

CreateOneExpense ==
    UNCHANGED <<today, inflight>> /\ ExpenseAPIView_post(Req(0, ExpenseBody))

IncomePutSeveral ==
    \E pk \in Ids, data \in SeveralIncomeFields :
        UNCHANGED <<today, inflight>> /\ IncomeAPIView_put(Req(pk, data))

ExpensePutSeveral ==
    \E pk \in Ids, data \in SeveralExpenseFields :
        UNCHANGED <<today, inflight>> /\ ExpenseAPIView_put(Req(pk, data))

TransactionPutSeveral ==
    \E data \in SeveralTransactionFields :
        UNCHANGED <<today, inflight>> /\ TransactionAPIView_put(Req(0, data))

SeveralNext ==
    \/ CreateOneIncome
    \/ CreateOneExpense
    \/ IncomePutSeveral
    \/ ExpensePutSeveral
    \/ TransactionPutSeveral

SpecSeveral == Init /\ [][SeveralNext]_vars

----------------------------------------------------------------------------
(* The list pages of a store of more rows than one page holds. *)

\* rows per table in the stores paged
MaxPaged == 11

\* n Income rows of which every k-th is of the later date, and the Expense
\* rows of the same dates
InitPaged ==
    /\ categories = (1 :> "Business")
    /\ categorySeq = 1
    /\ \E n \in 0..MaxPaged :
        \E d \in {[i \in 1..n |-> IF i % k = 0 THEN D2 ELSE D1] :
                    k \in 1..(n + 1)} :
            /\ incomes = [i \in 1..n |-> IncomeRow(d[i], i)]
            /\ incomeSeq = n
            /\ expenses = [i \in 1..n |-> ExpenseRow(d[i], n + i)]
            /\ expenseSeq = n
            /\ now = 2 * n
    /\ today = FirstDay
    /\ response = NoResponse
    /\ inflight = [w \in Workers |-> Idle]

\* GET /income/?page=number, the page after the last one included
IncomeListPage ==
    \E number \in 1..(num_pages(Cardinality(DOMAIN incomes), paginate_by) + 1) :
        UNCHANGED <<today, inflight>> /\ IncomeListView_get(<<>>, number)

\* GET /expenses/?page=number
ExpenseListPage ==
    \E number \in 1..(num_pages(Cardinality(DOMAIN expenses), paginate_by) + 1) :
        UNCHANGED <<today, inflight>> /\ ExpenseListView_get(<<>>, number)

PagedNext ==
    \/ IncomeListPage
    \/ ExpenseListPage

SpecPaged == InitPaged /\ [][PagedNext]_vars

----------------------------------------------------------------------------
(* Properties. *)

\* the sum of the amounts of the rows of a table, by id
RECURSIVE AmountsUpTo(_, _)
AmountsUpTo(table, n) ==
    IF n = 0 THEN ZERO
    ELSE DecAdd(IF n \in DOMAIN table THEN table[n].amount ELSE ZERO,
                AmountsUpTo(table, n - 1))

SumIncome == AmountsUpTo(incomes, incomeSeq)

SumExpense == AmountsUpTo(expenses, expenseSeq)

Balance == calculate_balance(calculate_total_income, calculate_total_expenses)

\* the last answer is that of GET /api/dashboard-data/
DashboardAnswered == response.stats.currentBalance # None

\* an Income / Expense row that an update has rewritten
UpdatedIncome(pk) ==
    pk \in DOMAIN incomes /\ incomes[pk].updated_at > incomes[pk].created_at

UpdatedExpense(pk) ==
    pk \in DOMAIN expenses /\ expenses[pk].updated_at > expenses[pk].created_at

\* C1: after any sequence of creates, updates and deletes the computed
\* balance is sum(Income amounts) - sum(Expense amounts) exactly: minus the
\* expense total when there is no Income, the income total when there is no
\* Expense, 0.00 when both tables are empty; the dashboard answer carries the
\* same balance.
C1_BalanceAccuracy ==
    /\ Balance = DecSub(SumIncome, SumExpense)
    /\ (DOMAIN incomes = {} => Balance = DecSub(ZERO, SumExpense))
    /\ (DOMAIN expenses = {} => Balance = SumIncome)
    /\ (DOMAIN incomes = {} /\ DOMAIN expenses = {} => Balance = ZERO)
    /\ (DashboardAnswered =>
            response.stats.currentBalance = DecSub(SumIncome, SumExpense))

\* a dashboard answer over rows of both kinds, one of them updated, with
\* expenses above income
C1_Witness ==
    /\ DashboardAnswered
    /\ DOMAIN incomes # {} /\ DOMAIN expenses # {}
    /\ \E pk \in DOMAIN incomes : UpdatedIncome(pk)
    /\ DecLT(response.stats.currentBalance, ZERO)

\* C2: in every state totalIncome() is the sum of the amounts of exactly the
\* stored Income rows (0.00 if none) and totalExpenses() that of the stored
\* Expense rows (0.00 if none), as is every total of a dashboard answer.
C2_TotalsReflectStore ==
    /\ calculate_total_income = SumIncome
    /\ calculate_total_expenses = SumExpense
    /\ (DOMAIN incomes = {} => calculate_total_income = ZERO)
    /\ (DOMAIN expenses = {} => calculate_total_expenses = ZERO)
    /\ (DashboardAnswered =>
            /\ response.stats.totalIncome = SumIncome
            /\ response.stats.totalExpenses = SumExpense)

\* a dashboard answer with both totals positive, after one of two Income
\* rows has been deleted
C2_Witness ==
    /\ DashboardAnswered
    /\ incomeSeq = 2 /\ Cardinality(DOMAIN incomes) = 1
    /\ DOMAIN expenses # {}
    /\ DecLT(ZERO, response.stats.totalIncome)
    /\ DecLT(ZERO, response.stats.totalExpenses)


Succeeded == response'.status = "success"

\* C3: a JSON API request answered with an error for a malformed body, a
\* missing field or a validation failure (HTTP 400) leaves every Category,
\* Income and Expense row as it was.
C3_ErrorLeavesStore ==
    [][(response'.status = "error" /\ response'.code = 400) => store' = store]_vars

\* the column each key of a request body sets
IncomeColumns ==
    [category_id |-> "category", source |-> "source", amount |-> "amount",
     date |-> "date", note |-> "note"]

ExpenseColumns == [title |-> "title", amount |-> "amount", date |-> "date"]

GenericIncomeColumns == [amount |-> "amount", description |-> "source"]

GenericExpenseColumns == [amount |-> "amount", description |-> "title"]

IncomeFields == {"category", "source", "amount", "date", "note"}

ExpenseFields == {"title", "amount", "date"}

\* the value a request supplies for a key, as its column holds it
Supplied(key, v) ==
    IF key = "amount" THEN AmountColumn(v.val).amount
    ELSE IF key \in {"source", "title", "description", "note"} THEN strip(v)
    ELSE v

\* row after is row before with the supplied fields set and no other of its
\* data fields changed, nor its created_at (updated_at is refreshed by save)
PatchOf(before, after, data, columns, fields) ==
    /\ after.created_at = before.created_at
    /\ \A k \in DOMAIN columns \cap DOMAIN data :
            after[columns[k]] = Supplied(k, data[k])
    /\ \A c \in fields :
            (\A k \in DOMAIN columns \cap DOMAIN data : columns[k] # c)
                => after[c] = before[c]

\* the rows other than pk, before and after
OthersKept(before, after, pk) ==
    /\ DOMAIN after = DOMAIN before
    /\ \A i \in DOMAIN before \ {pk} : after[i] = before[i]

\* C5: a successful update that supplies a subset of the fields of an Income
\* or Expense sets exactly those fields of that row; every other field of
\* the row, every other row and the other tables stay as they were.
C5_UpdateFrame ==
    [][/\ \A req \in IncomePutRequests :
            (Succeeded /\ IncomeAPIView_put(req)) =>
                /\ PatchOf(incomes[req.pk], incomes'[req.pk], req.data,
                           IncomeColumns, IncomeFields)
                /\ OthersKept(incomes, incomes', req.pk)
                /\ expenses' = expenses /\ categories' = categories
       /\ \A req \in ExpensePutRequests :
            (Succeeded /\ ExpenseAPIView_put(req)) =>
                /\ PatchOf(expenses[req.pk], expenses'[req.pk], req.data,
                           ExpenseColumns, ExpenseFields)
                /\ OthersKept(expenses, expenses', req.pk)
                /\ incomes' = incomes /\ categories' = categories
       /\ \A req \in TransactionPutRequests :
            (Succeeded /\ TransactionAPIView_put(req)) =>
                IF req.data.id \in DOMAIN incomes
                THEN /\ PatchOf(incomes[req.data.id], incomes'[req.data.id],
                                req.data, GenericIncomeColumns, IncomeFields)
                     /\ OthersKept(incomes, incomes', req.data.id)
                     /\ expenses' = expenses /\ categories' = categories
                ELSE /\ PatchOf(expenses[req.data.id], expenses'[req.data.id],
                                req.data, GenericExpenseColumns, ExpenseFields)
                     /\ OthersKept(expenses, expenses', req.data.id)
                     /\ incomes' = incomes /\ categories' = categories
      ]_vars

\* an Income row whose date and note alone were set by a PUT, next to a second
\* Income row that no update has touched
C5_Witness ==
    /\ response.status = "success" /\ response.code = 200
    /\ \E pk \in DOMAIN incomes :
        /\ UpdatedIncome(pk) /\ incomes[pk].updated_at = now
        /\ incomes[pk].date = D2 /\ incomes[pk].note = <<>>
        /\ incomes[pk].source = strip(T_cd) /\ incomes[pk].amount = A250.val
        /\ \E other \in DOMAIN incomes \ {pk} : ~UpdatedIncome(other)

\* the totals and the balance move by (new - old) of a row of the given kind
TotalsShift(kind, old, new) ==
    LET d == DecSub(new, old) IN
    IF kind = "income"
    THEN /\ DecSub(calculate_total_income', calculate_total_income) = d
         /\ calculate_total_expenses' = calculate_total_expenses
         /\ DecSub(Balance', Balance) = d
    ELSE /\ DecSub(calculate_total_expenses', calculate_total_expenses) = d
         /\ calculate_total_income' = calculate_total_income
         /\ DecSub(Balance', Balance) = DecSub(ZERO, d)

TotalsKept ==
    /\ calculate_total_income' = calculate_total_income
    /\ calculate_total_expenses' = calculate_total_expenses
    /\ Balance' = Balance

\* C6: an update that sets a row's amount moves the total of the row's kind
\* by exactly (newAmount - oldAmount), leaves the other total alone and moves
\* the balance by +(new - old) for an Income, -(new - old) for an Expense; an
\* update that supplies no amount leaves the two totals and the balance alone.
C6_UpdateShiftsTotals ==
    [][/\ \A req \in IncomePutRequests :
            (Succeeded /\ IncomeAPIView_put(req)) =>
                IF Has(req.data, "amount")
                THEN TotalsShift("income", incomes[req.pk].amount,
                                 Supplied("amount", req.data.amount))
                ELSE TotalsKept
       /\ \A req \in ExpensePutRequests :
            (Succeeded /\ ExpenseAPIView_put(req)) =>
                IF Has(req.data, "amount")
                THEN TotalsShift("expense", expenses[req.pk].amount,
                                 Supplied("amount", req.data.amount))
                ELSE TotalsKept
       /\ \A req \in TransactionPutRequests :
            (Succeeded /\ TransactionAPIView_put(req)) =>
                TotalsShift(Probe(req.data.id),
                    IF Probe(req.data.id) = "income"
                    THEN incomes[req.data.id].amount
                    ELSE expenses[req.data.id].amount,
                    IF Has(req.data, "amount")
                    THEN Supplied("amount", req.data.amount)
                    ELSE IF Probe(req.data.id) = "income"
                    THEN incomes[req.data.id].amount
                    ELSE expenses[req.data.id].amount)
      ]_vars

\* an Expense whose amount a PUT has changed from 100.00 to 19.995, stored as
\* 20.00, with an Income stored beside it
C6_Witness ==
    /\ response.status = "success" /\ response.code = 200
    /\ DOMAIN incomes # {}
    /\ \E pk \in DOMAIN expenses :
        /\ UpdatedExpense(pk) /\ expenses[pk].updated_at = now
        /\ expenses[pk].amount = Dec(20, 0)
        /\ expenses[pk].title = strip(T_ab) /\ expenses[pk].date = D2

\* C7: deleting a row removes it for good from every later get and list,
\* lowers the total of its kind by exactly its amount (so deleting an Expense
\* raises the balance by its amount), leaves the other total alone and leaves
\* every other row as it was.
C7_DeletionConsistency ==
    [][/\ \A req \in DeleteRequests :
            (Succeeded /\ IncomeAPIView_delete(req)) =>
                /\ DOMAIN incomes' = DOMAIN incomes \ {req.pk}
                /\ \A i \in DOMAIN incomes' : incomes'[i] = incomes[i]
                /\ expenses' = expenses /\ categories' = categories
                /\ TotalsShift("income", incomes[req.pk].amount, ZERO)
       /\ \A req \in DeleteRequests :
            (Succeeded /\ ExpenseAPIView_delete(req)) =>
                /\ DOMAIN expenses' = DOMAIN expenses \ {req.pk}
                /\ \A i \in DOMAIN expenses' : expenses'[i] = expenses[i]
                /\ incomes' = incomes /\ categories' = categories
                /\ TotalsShift("expense", expenses[req.pk].amount, ZERO)
                /\ Balance' = DecAdd(Balance, expenses[req.pk].amount)
       /\ \A req \in TransactionDeleteRequests :
            (Succeeded /\ TransactionAPIView_delete(req)) =>
                IF req.data.id \in DOMAIN incomes
                THEN /\ DOMAIN incomes' = DOMAIN incomes \ {req.data.id}
                     /\ \A i \in DOMAIN incomes' : incomes'[i] = incomes[i]
                     /\ expenses' = expenses
                     /\ TotalsShift("income", incomes[req.data.id].amount, ZERO)
                ELSE /\ DOMAIN expenses' = DOMAIN expenses \ {req.data.id}
                     /\ \A i \in DOMAIN expenses' : expenses'[i] = expenses[i]
                     /\ incomes' = incomes
                     /\ TotalsShift("expense", expenses[req.data.id].amount, ZERO)
       /\ \A id \in 1..incomeSeq :
            id \notin DOMAIN incomes => id \notin DOMAIN incomes'
       /\ \A id \in 1..expenseSeq :
            id \notin DOMAIN expenses => id \notin DOMAIN expenses'
      ]_vars

\* the first of two Expense rows has been deleted, the second and an Income
\* are still stored
C7_Witness ==
    /\ response.status = "success" /\ response.code = 200
    /\ expenseSeq = 2 /\ DOMAIN expenses = {2}
    /\ DOMAIN incomes # {}

\* C8: every stored Income's category is a Category row that exists.
C8_NoOrphanIncome ==
    \A pk \in DOMAIN incomes : incomes[pk].category \in DOMAIN categories

\* an Income created under category 1 that a PUT has moved to the Salary
\* category, itself made by get_or_create
C8_Witness ==
    \E pk \in DOMAIN incomes :
        /\ UpdatedIncome(pk)
        /\ incomes[pk].source = strip(T_cd) /\ incomes[pk].date = D1
        /\ incomes[pk].category \in CategoryByName("Salary")

OneYearOn == Date(Year(today) + 1, Month(today), Day(today))

\* the rules of the validation contract that an input breaks
BreaksAmountRule(in) ==
    DecLE(in.amount.val, ZERO) \/ DecLT(MAX_AMOUNT, in.amount.val)

BreaksTextRule(in) == Len(strip(in.text)) < 2

BreaksDateRule(in) == in.date > OneYearOn

BreaksNoRule(in) ==
    ~BreaksAmountRule(in) /\ ~BreaksTextRule(in) /\ ~BreaksDateRule(in)

\* C4: the JSON API create and update handlers accept an input (amount,
\* source/title text, date) if and only if IncomeForm / ExpenseForm accepts
\* the same input.
C4_SameVerdict ==
    [][\A in \in ValidationInputs :
        /\ IncomeAPIView_post(Req(0, IncomeJsonOf(in))) =>
            (Succeeded <=> (/\ ~Form_crashes(IncomeFormOf(in))
                            /\ IncomeForm_errors(IncomeFormOf(in)) = {}))
        /\ ExpenseAPIView_post(Req(0, ExpenseJsonOf(in))) =>
            (Succeeded <=> (/\ ~Form_crashes(ExpenseFormOf(in))
                            /\ ExpenseForm_errors(ExpenseFormOf(in)) = {}))
        /\ \A pk \in Ids :
            ExpenseAPIView_put(Req(pk, ExpenseJsonOf(in))) =>
                (Succeeded <=> (/\ pk \in DOMAIN expenses
                                /\ ~Form_crashes(ExpenseFormOf(in))
                                /\ ExpenseForm_errors(ExpenseFormOf(in)) = {}))
      ]_vars

\* C10: on the form path each of amount <= 0, amount > 99999999.99, trimmed
\* source/title shorter than 2 and date > today + 1 year makes the form
\* invalid with an error on that field, and an input that breaks none of
\* them, with every required field present, is accepted.
C10_FormRules ==
    [][\A in \in ValidationInputs :
        /\ IncomeCreateView_post(Req(0, IncomeFormOf(in))) =>
            /\ BreaksAmountRule(in) => "amount" \in response'.errors
            /\ BreaksTextRule(in) => "source" \in response'.errors
            /\ BreaksDateRule(in) => "date" \in response'.errors
            /\ BreaksNoRule(in) => response'.code = 302
        /\ ExpenseCreateView_post(Req(0, ExpenseFormOf(in))) =>
            /\ BreaksAmountRule(in) => "amount" \in response'.errors
            /\ BreaksTextRule(in) => "title" \in response'.errors
            /\ BreaksDateRule(in) => "date" \in response'.errors
            /\ BreaksNoRule(in) => response'.code = 302
      ]_vars


\* C11: every stored Income and Expense has an amount that is strictly
\* positive and within 0.01 .. 99999999.99, whichever path wrote it.
C11_AmountInRange ==
    /\ \A pk \in DOMAIN incomes :
        /\ DecLE(Dec(0, 10), incomes[pk].amount)
        /\ DecLE(incomes[pk].amount, MAX_AMOUNT)
    /\ \A pk \in DOMAIN expenses :
        /\ DecLE(Dec(0, 10), expenses[pk].amount)
        /\ DecLE(expenses[pk].amount, MAX_AMOUNT)


\* the stored records, as (type, id) pairs
AllRecords ==
    {<<"income", i>> : i \in DOMAIN incomes}
    \cup {<<"expense", i>> : i \in DOMAIN expenses}

\* the date of a stored record
DateOf(r) == IF r[1] = "income" THEN incomes[r[2]].date ELSE expenses[r[2]].date

\* the (type, id) pairs that a list of entries names
Listed(list) == {<<list[k].type, list[k].id>> : k \in 1..Len(list)}

\* a list of entries runs from the latest date to the earliest
DateDescending(list) ==
    \A k \in 1..Len(list) : \A l \in k..Len(list) : list[k].date >= list[l].date

\* C12: recent_transactions of GET /api/dashboard-data/ holds exactly
\* min(10, total) records of the combined Income and Expense set, each once,
\* none of them older than a record left out, sorted by date descending.
C12_RecentTransactions ==
    DashboardAnswered =>
        LET list  == response.transactions
            total == Cardinality(AllRecords)
        IN  /\ Len(list) = IF total < RecentLimit THEN total ELSE RecentLimit
            /\ Listed(list) \subseteq AllRecords
            /\ Cardinality(Listed(list)) = Len(list)
            /\ \A k \in 1..Len(list) :
                    list[k].date = DateOf(<<list[k].type, list[k].id>>)
            /\ DateDescending(list)
            /\ \A r \in AllRecords \ Listed(list) :
                    \A k \in 1..Len(list) : DateOf(r) <= list[k].date


\* the last answer is the listing of GET /api/income/, of GET /api/expense/
IncomeListed ==
    response.stats.totalIncome # None /\ response.stats.totalExpenses = None

ExpenseListed ==
    response.stats.totalExpenses # None /\ response.stats.totalIncome = None

\* a list names exactly the rows of a table, each once, by date descending
\* and, among rows of one date, by created_at descending
CompleteAndOrdered(list, table) ==
    /\ {list[k].id : k \in 1..Len(list)} = DOMAIN table
    /\ Len(list) = Cardinality(DOMAIN table)
    /\ \A k \in 1..Len(list) : \A l \in (k + 1)..Len(list) :
        LET a == table[list[k].id]
            b == table[list[l].id]
        IN  \/ a.date > b.date
            \/ (a.date = b.date /\ a.created_at >= b.created_at)

\* C13: the unfiltered listing of a kind returns exactly the ids of the N
\* stored records of that kind, each once, ordered by date descending with
\* ties broken by created_at descending.
C13_ListComplete ==
    /\ IncomeListed => CompleteAndOrdered(response.transactions, incomes)
    /\ ExpenseListed => CompleteAndOrdered(response.transactions, expenses)

\* a listing of at least three Income rows in which a row created earlier
\* comes first for its later date, and two rows of one date follow each other
C13_Witness ==
    /\ IncomeListed
    /\ Len(response.transactions) >= 3
    /\ \E k \in 1..(Len(response.transactions) - 1) :
        /\ response.transactions[k].date > response.transactions[k + 1].date
        /\ response.transactions[k].id < response.transactions[k + 1].id
    /\ \E k \in 1..(Len(response.transactions) - 1) :
        response.transactions[k].date = response.transactions[k + 1].date


\* C14: once a DELETE of a record has answered with success, no later state
\* holds a record of that kind with that id, whatever requests on the same id
\* are served around it (a PUT that read the row before the delete and saves
\* after it among them).
C14_DeleteIsFinal ==
    [][\A id \in 1..incomeSeq :
        id \notin DOMAIN incomes => id \notin DOMAIN incomes']_vars


\* worker w saves the row of its request in this step
Saves(w) == inflight[w] # Idle /\ inflight'[w] = Idle

\* C15: a record is written in one step. A row of the Income table differs
\* between two successive states only by the save of one PUT, and the row
\* after that save carries every field the PUT supplied; a reader served in
\* any state is answered with the stored row, so it never sees a row with
\* only some of the supplied fields applied.
C15_WholeRecordWritten ==
    [][/\ \A id \in DOMAIN incomes \cap DOMAIN incomes' :
            incomes'[id] # incomes[id] =>
                \E w \in Workers : Saves(w) /\ inflight[w].pk = id
       /\ \A w \in Workers :
            (Saves(w) /\ incomes' # incomes) =>
                \A k \in DOMAIN IncomeColumns \cap DOMAIN inflight[w].data :
                    incomes'[inflight[w].pk][IncomeColumns[k]]
                        = Supplied(k, inflight[w].data[k])
       /\ \A pk \in DOMAIN incomes :
            (response'.code = 200 /\ IncomeAPIView_get(pk)) =>
                /\ response'.data.id = pk
                /\ \A c \in IncomeFields \ {"category", "amount"} :
                        response'.data[c] = incomes[pk][c]
                /\ response'.data.amount.val = incomes[pk].amount
                /\ response'.data.category.id = incomes[pk].category
      ]_vars

\* a reader is answered with an Income whose date and note one PUT has set,
\* while the next PUT of that row has read it and not yet saved
C15_Witness ==
    /\ response.code = 200
    /\ response.data # NoData
    /\ response.data.date = D2 /\ response.data.note = <<>>
    /\ response.data.updated_at > response.data.created_at
    /\ \E w \in Workers : inflight[w].pk = response.data.id


\* the answer is 404 and no table has changed
NotFoundAnswer == response'.code = 404 /\ store' = store

\* a request on an id that its table (for /api/transactions/, either table)
\* does not hold is answered 404 with the store unchanged, and the id of a
\* successful DELETE on /api/income/ or /api/expense/ is absent afterwards
AbsentIdNotFound ==
    /\ \A req \in DeleteRequests :
        /\ (req.pk \notin DOMAIN incomes /\ IncomeAPIView_delete(req))
                => NotFoundAnswer
        /\ (req.pk \notin DOMAIN expenses /\ ExpenseAPIView_delete(req))
                => NotFoundAnswer
        /\ (Succeeded /\ IncomeAPIView_delete(req))
                => req.pk \notin DOMAIN incomes'
        /\ (Succeeded /\ ExpenseAPIView_delete(req))
                => req.pk \notin DOMAIN expenses'
    /\ \A req \in IncomePutRequests :
        (req.json /\ req.pk \notin DOMAIN incomes /\ IncomeAPIView_put(req))
            => NotFoundAnswer
    /\ \A req \in ExpensePutRequests :
        (req.json /\ req.pk \notin DOMAIN expenses /\ ExpenseAPIView_put(req))
            => NotFoundAnswer
    /\ \A req \in TransactionDeleteRequests :
        (req.json /\ Has(req.data, "id") /\ Probe(req.data.id) = "none"
            /\ TransactionAPIView_delete(req)) => NotFoundAnswer
    /\ \A req \in TransactionPutRequests :
        (req.json /\ Has(req.data, "id") /\ Probe(req.data.id) = "none"
            /\ TransactionAPIView_put(req)) => NotFoundAnswer

\* C16 as stated: a single-record DELETE or PUT of an id that does not exist
\* is answered 404 and changes nothing, and after a successful DELETE of an
\* id - on /api/transactions/ too - a second DELETE of that id finds nothing.
C16_SecondDeleteNotFound ==
    [][/\ AbsentIdNotFound
       /\ \A req \in TransactionDeleteRequests :
            (Succeeded /\ TransactionAPIView_delete(req))
                => Probe(req.data.id)' = "none"
      ]_vars

\* the part of C16 that holds: the statement for /api/income/<id>/ and
\* /api/expense/<id>/ (a PUT with a body that parses); on /api/transactions/
\* the record found for the id is gone after a successful DELETE, and a second
\* DELETE of the id is 404 exactly when the other table holds no record of
\* that id.
C16_AbsentIdNotFound ==
    [][/\ AbsentIdNotFound
       /\ \A req \in TransactionDeleteRequests :
            (Succeeded /\ TransactionAPIView_delete(req)) =>
                IF Probe(req.data.id) = "income"
                THEN /\ req.data.id \notin DOMAIN incomes'
                     /\ (Probe(req.data.id)' = "none"
                            <=> req.data.id \notin DOMAIN expenses)
                ELSE Probe(req.data.id)' = "none"
      ]_vars

\* a request is answered 404 in a store whose first Income has been deleted
\* while the Expense of the same id is still stored
C16_Witness ==
    /\ response.code = 404
    /\ incomeSeq >= 1 /\ 1 \notin DOMAIN incomes
    /\ 1 \in DOMAIN expenses


\* the request carries a category_id that no Category row has
UnknownCategory(req) ==
    /\ req.json
    /\ Has(req.data, "category_id")
    /\ ~Falsy("category_id", req.data.category_id)
    /\ ~CategoryExists(req.data.category_id)

BadAmount(req) ==
    /\ req.json
    /\ Has(req.data, "amount")
    /\ ~Falsy("amount", req.data.amount)
    /\ (~req.data.amount.numeric \/ DecLE(req.data.amount.val, ZERO))

\* the request is refused as a validation error and no table has changed
ValidationAnswer == response'.code = 400 /\ store' = store

\* C18: a JSON create, or an update of a stored record, whose amount is not
\* numeric or is not above zero is answered 400, never 500, and leaves every
\* table as it was.
C18_BadAmountIs400 ==
    [][/\ \A req \in IncomePostRequests :
            (BadAmount(req) /\ IncomeAPIView_post(req)) => ValidationAnswer
       /\ \A req \in ExpensePostRequests :
            (BadAmount(req) /\ ExpenseAPIView_post(req)) => ValidationAnswer
       /\ \A req \in IncomePutRequests :
            (BadAmount(req) /\ req.pk \in DOMAIN incomes
                /\ IncomeAPIView_put(req)) => ValidationAnswer
       /\ \A req \in ExpensePutRequests :
            (BadAmount(req) /\ req.pk \in DOMAIN expenses
                /\ ExpenseAPIView_put(req)) => ValidationAnswer
      ]_vars


\* the note a create stores for a body
NoteOf(data) == IF Has(data, "note") THEN data.note ELSE <<>>

\* what GET /api/income/<id>/ answers for the id a create has returned
IncomeReadBack == IncomeData(incomes', categories', response'.data.id)

\* what GET /api/expense/<id>/ answers for the id a create has returned
ExpenseReadBack == ExpenseData(expenses', response'.data.id)

\* a GET of one record answers with the stored row
GetAnswersRow ==
    /\ \A pk \in Ids :
        (response'.code = 200 /\ IncomeAPIView_get(pk)) =>
            response'.data = IncomeData(incomes, categories, pk)
    /\ \A pk \in Ids :
        (response'.code = 200 /\ ExpenseAPIView_get(pk)) =>
            response'.data = ExpenseData(expenses, pk)

\* C19 as stated: after a create with a valid body, the GET of the returned
\* id answers category, source, amount, date and note (title, amount and date
\* of an Expense) identical to the values the body supplied.
C19_RoundTripIdentical ==
    [][/\ GetAnswersRow
       /\ \A data \in ValidIncomeBodies :
            (Succeeded /\ IncomeAPIView_post(Req(0, data))) =>
                /\ IncomeReadBack.category.id = data.category_id
                /\ IncomeReadBack.source = data.source
                /\ IncomeReadBack.amount.val = data.amount.val
                /\ IncomeReadBack.date = data.date
                /\ IncomeReadBack.note = NoteOf(data)
       /\ \A data \in ValidExpenseBodies :
            (Succeeded /\ ExpenseAPIView_post(Req(0, data))) =>
                /\ ExpenseReadBack.title = data.title
                /\ ExpenseReadBack.amount.val = data.amount.val
                /\ ExpenseReadBack.date = data.date
      ]_vars

\* C19, amended: the GET answers the supplied category, amount (as a number
\* of the same value) and date, and the supplied source, note and title with
\* the whitespace around them removed.
C19_RoundTripTrimmed ==
    [][/\ GetAnswersRow
       /\ \A data \in ValidIncomeBodies :
            (Succeeded /\ IncomeAPIView_post(Req(0, data))) =>
                /\ IncomeReadBack.category.id = data.category_id
                /\ IncomeReadBack.source = strip(data.source)
                /\ IncomeReadBack.amount.val = data.amount.val
                /\ IncomeReadBack.date = data.date
                /\ IncomeReadBack.note = strip(NoteOf(data))
       /\ \A data \in ValidExpenseBodies :
            (Succeeded /\ ExpenseAPIView_post(Req(0, data))) =>
                /\ ExpenseReadBack.title = strip(data.title)
                /\ ExpenseReadBack.amount.val = data.amount.val
                /\ ExpenseReadBack.date = data.date
      ]_vars

\* a GET has answered with the Income that a create of source ' cd ' and
\* amount 250.50 stored
C19_Witness ==
    /\ response.code = 200
    /\ response.data # NoData
    /\ "updated_at" \in DOMAIN response.data
    /\ "source" \in DOMAIN response.data
    /\ response.data.source = strip(T_cd)
    /\ response.data.amount = Num(250, 500)
    /\ response.data.note = T_note


\* row pk of the table is still there, created when it was and updated no
\* earlier than before
StampsKept(before, after, pk) ==
    /\ DOMAIN after = DOMAIN before
    /\ after[pk].created_at = before[pk].created_at
    /\ after[pk].updated_at >= before[pk].updated_at

\* C20: a successful update leaves the record under its id with its
\* created_at, and with an updated_at not earlier than the one it had; every
\* stored record has updated_at >= created_at.
C20_StampsPreserved ==
    [][/\ \A req \in IncomePutRequests :
            (Succeeded /\ IncomeAPIView_put(req)) =>
                StampsKept(incomes, incomes', req.pk)
       /\ \A req \in ExpensePutRequests :
            (Succeeded /\ ExpenseAPIView_put(req)) =>
                StampsKept(expenses, expenses', req.pk)
       /\ \A req \in TransactionPutRequests :
            (Succeeded /\ TransactionAPIView_put(req)) =>
                IF Probe(req.data.id) = "income"
                THEN StampsKept(incomes, incomes', req.data.id)
                ELSE StampsKept(expenses, expenses', req.data.id)
       /\ \A id \in DOMAIN incomes' :
            incomes'[id].updated_at >= incomes'[id].created_at
       /\ \A id \in DOMAIN expenses' :
            expenses'[id].updated_at >= expenses'[id].created_at
      ]_vars

\* an update has just stamped an Expense that was created two readings of
\* the clock earlier
C20_Witness ==
    /\ response.status = "success" /\ response.code = 200
    /\ \E id \in DOMAIN expenses :
            /\ expenses[id].updated_at = now
            /\ expenses[id].updated_at > expenses[id].created_at + 1


\* C21 as stated: no income or expense create, update or delete changes the
\* Category table.
C21_CategoriesUnchanged ==
    [][categories' = categories]_vars

\* C21, amended: every Category row stays as it is under every income and
\* expense operation (a delete of an Income keeps its Category); the one row
\* such an operation adds is 'Salary', added when no row has that name by a
\* create of an income on /api/transactions/.
C21_CategoriesOnlyGrow ==
    [][/\ \A c \in DOMAIN categories :
            c \in DOMAIN categories' /\ categories'[c] = categories[c]
       /\ categories' # categories =>
            /\ CategoryByName("Salary") = {}
            /\ \A c \in DOMAIN categories' \ DOMAIN categories :
                    categories'[c] = "Salary"
            /\ Cardinality(DOMAIN categories') = Cardinality(DOMAIN categories) + 1
            /\ \E req \in TransactionPostRequests :
                    /\ req.json /\ Has(req.data, "type")
                    /\ req.data.type = "income"
                    /\ TransactionAPIView_post(req)
      ]_vars

\* the Income rows created so far have all been deleted, and both the
\* Category they were filed under and 'Salary' are still stored
C21_Witness ==
    /\ incomeSeq >= 1 /\ DOMAIN incomes = {}
    /\ response.status = "success"
    /\ Cardinality(DOMAIN categories) = 2
    /\ CategoryByName("Salary") # {}


\* the rows ids of a table
RestrictTo(table, ids) == [i \in ids |-> table[i]]

\* a row meets the date and amount bounds of a filter specification, both
\* ends included
WithinBounds(row, f) ==
    /\ Has(f, "date_from") => f.date_from <= row.date
    /\ Has(f, "date_to") => row.date <= f.date_to
    /\ Has(f, "amount_min") => DecLE(f.amount_min.val, row.amount)
    /\ Has(f, "amount_max") => DecLE(row.amount, f.amount_max.val)

\* an Income meets every predicate a filter specification supplies
IncomeSatisfies(i, f) ==
    /\ Has(f, "search") =>
            \E text \in {incomes[i].source, incomes[i].note,
                         NameText(categories[incomes[i].category])} :
                icontains(text, strip(f.search))
    /\ Has(f, "category") =>
            NameText(categories[incomes[i].category]) = f.category
    /\ WithinBounds(incomes[i], f)

\* an Expense meets every predicate supplied (category is for Income only)
ExpenseSatisfies(i, f) ==
    /\ Has(f, "search") => icontains(expenses[i].title, strip(f.search))
    /\ WithinBounds(expenses[i], f)

\* the last answer is a list page of the Income, of the Expense table
IncomePageAnswered == response.code = 200 /\ response.stats.totalIncome # None

ExpensePageAnswered == response.code = 200 /\ response.stats.totalExpenses # None

\* the filters of the last answer are a filter specification: every value
\* supplied parses
WellFormed(f) ==
    /\ Has(f, "date_from") => IsDate(f.date_from)
    /\ Has(f, "date_to") => IsDate(f.date_to)
    /\ Has(f, "amount_min") => f.amount_min.numeric
    /\ Has(f, "amount_max") => f.amount_max.numeric

\* C22: for a filter specification with any subset of the six keys, the list
\* page names exactly the records that meet every supplied predicate, bounds
\* included at both ends and the category matched by its exact name, in the
\* default order.
C22_FilterConjunction ==
    /\ (IncomePageAnswered /\ WellFormed(response.filters)) =>
            CompleteAndOrdered(response.transactions,
                RestrictTo(incomes,
                    {i \in DOMAIN incomes :
                        IncomeSatisfies(i, response.filters)}))
    /\ (ExpensePageAnswered /\ WellFormed(response.filters)) =>
            CompleteAndOrdered(response.transactions,
                RestrictTo(expenses,
                    {i \in DOMAIN expenses :
                        ExpenseSatisfies(i, response.filters)}))

\* the page of a store of two Income rows lists only the later one, which
\* lies on the lower bound of the dates asked for
C22_Witness ==
    /\ IncomePageAnswered
    /\ DOMAIN response.filters = {"date_from", "amount_min"}
    /\ Cardinality(DOMAIN incomes) = 2
    /\ Len(response.transactions) = 1
    /\ response.transactions[1].date = D2
    /\ \E i \in DOMAIN incomes : incomes[i].date = D1


\* the filters left when every value that does not parse is dropped
Parsable(f) ==
    [k \in {key \in DOMAIN f :
                /\ key \in {"date_from", "date_to"} => IsDate(f[key])
                /\ key \in {"amount_min", "amount_max"} => f[key].numeric}
        |-> f[k]]

\* the list page names the rows that meet the filters that parse
ListsByParsable ==
    /\ IncomePageAnswered =>
            CompleteAndOrdered(response.transactions,
                RestrictTo(incomes,
                    {i \in DOMAIN incomes :
                        IncomeSatisfies(i, Parsable(response.filters))}))
    /\ ExpensePageAnswered =>
            CompleteAndOrdered(response.transactions,
                RestrictTo(expenses,
                    {i \in DOMAIN expenses :
                        ExpenseSatisfies(i, Parsable(response.filters))}))

\* C23: a dateFrom or dateTo that does not parse, or an amountMin or amountMax
\* that is no number, never makes the listing fail: the predicate is dropped
\* and the page is that of the remaining predicates.
C23_MalformedDropped == response.code # 500 /\ ListsByParsable

\* the part of C23 that holds: every page that is answered is that of the
\* filters that parse, a date that does not parse among them
C23_AnsweredByParsable == ListsByParsable

\* a page answered for a date_from that does not parse
C23_Witness ==
    /\ IncomePageAnswered
    /\ Has(response.filters, "date_from")
    /\ ~IsDate(response.filters.date_from)
    /\ Len(response.transactions) = 2


\* the pages of a listing, of a page size
Pages(object_list, per_page) ==
    [number \in 1..num_pages(Len(object_list), per_page) |->
        page_of(object_list, number, per_page)]

\* the ids a page names
PageIds(page) == {page[k] : k \in 1..Len(page)}

\* the pages name every id of the listing once: no id twice on a page, no id
\* on two pages, no id on none
Partition(object_list, per_page) ==
    LET pages == Pages(object_list, per_page) IN
    /\ \A n \in DOMAIN pages :
            /\ Len(pages[n]) <= per_page
            /\ Cardinality(PageIds(pages[n])) = Len(pages[n])
    /\ \A n, m \in DOMAIN pages :
            n # m => PageIds(pages[n]) \cap PageIds(pages[m]) = {}
    /\ UNION {PageIds(pages[n]) : n \in DOMAIN pages} = PageIds(object_list)

\* C24: with the store unchanged, reading a listing page by page, for any
\* page size, gives every record exactly once; the pages are pairwise
\* disjoint and their union is the full listing. A page the views answer is
\* one of these pages.
C24_PagesPartition ==
    LET income_list == order_by(incomes, DOMAIN incomes)
        expense_list == order_by(expenses, DOMAIN expenses)
    IN  /\ \A per_page \in 1..paginate_by :
                /\ Partition(income_list, per_page)
                /\ Partition(expense_list, per_page)
        /\ PageIds(income_list) = DOMAIN incomes
        /\ PageIds(expense_list) = DOMAIN expenses
        /\ IncomePageAnswered =>
                \E n \in DOMAIN Pages(income_list, paginate_by) :
                    response.transactions =
                        Entries("income", incomes,
                                Pages(income_list, paginate_by)[n])
        /\ ExpensePageAnswered =>
                \E n \in DOMAIN Pages(expense_list, paginate_by) :
                    response.transactions =
                        Entries("expense", expenses,
                                Pages(expense_list, paginate_by)[n])

\* the second page of a store of one row more than a page holds
C24_Witness ==
    /\ IncomePageAnswered
    /\ Cardinality(DOMAIN incomes) = paginate_by + 1
    /\ Len(response.transactions) = 1


TakenUp(w) ==
    /\ inflight[w] = Idle
    /\ inflight'[w] # Idle
    /\ \A v \in Workers \ {w} : inflight'[v] = inflight[v]
    /\ response' = response

\* worker w ends its request, with the answer of a PUT that got to save()
Ended(w) ==
    /\ inflight[w] # Idle
    /\ inflight' = [inflight EXCEPT ![w] = Idle]
    /\ \/ response'.status = "success" /\ response'.code = 200
       \/ response'.status = "error" /\ response'.code = 500

\* a request is answered in the step that takes it up
AnsweredAtOnce ==
    /\ inflight' = inflight
    /\ response'.status \in {"success", "error"}
    /\ response'.code \in {200, 201, 400, 404, 500}

\* C26: every request to an API handler gets exactly one answer on every
\* path: the step that takes it up answers it, or the step that ends it
\* does; no request ends without an answer, and a request taken up can be
\* ended whatever the other requests do.
C26_OneAnswerPerRequest ==
    /\ [][\/ AnsweredAtOnce
          \/ \E w \in Workers : TakenUp(w)
          \/ \E w \in Workers : Ended(w)]_vars
    /\ [](\A w \in Workers :
            (inflight[w] # Idle /\ now < MaxClock) =>
                ENABLED (UNCHANGED today /\ IncomeAPIView_put_save(w)))

\* a PUT that was taken up and answered after another request was served
C26_Witness ==
    /\ \A w \in Workers : inflight[w] = Idle
    /\ response.status = "success" /\ response.code = 200
    /\ \E i \in DOMAIN incomes :
            incomes[i].updated_at > incomes[i].created_at + 1


\* the columns of an Income row that the body of a PUT does not name
ColumnsNotNamed(data) ==
    {"category", "source", "amount", "date", "note"}
        \ {IF k = "category_id" THEN "category" ELSE k : k \in DOMAIN data}

\* C27: of two PUTs on one record that overlap in time and name disjoint
\* fields, both answered success, neither update is lost: the PUT that saves
\* last leaves the columns it does not name as they are stored, which hold
\* the values of the other PUT.
C27_NoLostUpdate ==
    [][\A w \in Workers :
            (/\ Ended(w)
             /\ response'.status = "success"
             /\ inflight[w].pk \in DOMAIN incomes) =>
                \A column \in ColumnsNotNamed(inflight[w].data) :
                    incomes'[inflight[w].pk][column] =
                        incomes[inflight[w].pk][column]
      ]_vars


\* C28: a PUT of several fields that fails validation on any one of them
\* applies none: whenever a request is answered with an error, the stored
\* records are those of before, also when fields checked earlier were valid.
C28_AllOrNothing ==
    [][response'.status = "error" =>
            /\ incomes' = incomes
            /\ expenses' = expenses
            /\ categories' = categories]_vars

\* a PUT refused with 400 on records that an accepted PUT has changed before
C28_Witness ==
    /\ response.status = "error" /\ response.code = 400
    /\ \E i \in DOMAIN incomes :
            /\ incomes[i].source = T_ab
            /\ incomes[i].updated_at > incomes[i].created_at
    /\ DOMAIN expenses # {}


\* the ids whose Expense row a step has changed or removed
ExpensesTouched ==
    {id \in DOMAIN expenses :
        id \notin DOMAIN expenses' \/ expenses'[id] # expenses[id]}

\* C29: when an Income and an Expense have the same id, a PUT or DELETE on
\* /api/transactions/ with that id changes or deletes the Income only and
\* leaves the Expense as it is; the generic resource gets to an Expense only
\* when no Income has its id, that is after that Income was deleted.
C29_SharedIdIncomeOnly ==
    [][/\ (Succeeded /\ response'.type = "income") =>
            /\ expenses' = expenses
            /\ \E id \in DOMAIN incomes :
                    id \notin DOMAIN incomes' \/ incomes'[id] # incomes[id]
       /\ (Succeeded /\ response'.type = "expense") =>
            /\ incomes' = incomes
            /\ ExpensesTouched # {}
            /\ ExpensesTouched \cap DOMAIN incomes = {}
      ]_vars

\* the generic DELETE of an id that both tables had has removed the Income;
\* the Expense of that id is stored as it was made
C29_Witness ==
    /\ response.status = "success" /\ response.type = "income"
    /\ \E id \in DOMAIN expenses \ DOMAIN incomes :
            /\ id <= incomeSeq
            /\ ~UpdatedExpense(id)


\* the sum of the amounts that a list of entries shows
RECURSIVE SumListed(_)
SumListed(transactions) ==
    IF transactions = <<>> THEN ZERO
    ELSE DecAdd(transactions[1].amount, SumListed(Tail(transactions)))

\* C30: in every answer of GET /api/income/ the total of the stats is the sum
\* of the amounts listed in the same answer, also when another request
\* commits between the handler's read of the list and its read of the total.
C30_TotalsMatchListed ==
    response.stats.totalIncome # None =>
        response.stats.totalIncome = SumListed(response.transactions)

====
